---- MODULE Spec2Model ----
(***************************************************************************)
(* A model of SyConn's segmentation-object storage helpers, the legacy     *)
(* contact-site voxel detector, the soma grow-out pass and the legacy      *)
(* skeleton-object mapper's pairwise contact / connectivity routines.      *)
(*                                                                         *)
(* The voxel store is a state machine (save_voxels / load_voxels on a      *)
(* VoxelDict).  The other routines are functions of their arguments: each  *)
(* is an operator computed as the code computes it, and an action applies  *)
(* it to an input drawn from a bounded set, leaving the input in `call`    *)
(* and the result in `ret`.                                                *)
(***************************************************************************)
EXTENDS Integers, Sequences, FiniteSets, TLC

VARIABLES
    voxel_dc,   \* the VoxelDict on disk: object id -> sequence of blocks
    saved,      \* history: object id -> absolute coordinates of the True voxels saved
    so,         \* the SegmentationObject of the last helper call: id, _size, _bounding_box,
                \* and the volume load_voxels returned for it (save_voxels is called
                \* on a newly created object, as extract_pre_cs_thread does)
    last,       \* the storage helper called last
    call,       \* the arguments of the function under study
    ret,        \* what it returned
    pc,         \* "call" before the function is applied, "done" after
    files,      \* the files written below dest_path
    sd          \* the SegmentationDataset: its id file on disk (path_ids) and its _ids

vars == <<voxel_dc, saved, so, last, call, ret, pc, files, sd>>

storeVars == <<voxel_dc, saved, so, last, files, sd>>
callVars == <<call, ret, pc>>

----------------------------------------------------------------------------
(* Bounds of the model. *)

MaxId == 2          \* object ids 1..MaxId
MaxVol == 2         \* a saved block holds at most MaxVol voxels
MaxOffset == 1      \* block offsets 0..MaxOffset on every axis
MaxBlocks == 2      \* blocks in the store, over all ids
MaxSamples == 90    \* probability samples of a supervoxel
MaxOut == 2         \* extent of detect_cs's output on every axis
MaxCount == 2       \* occurrences of one label in a kernel window
MaxLabels == 2      \* labels in a kernel window besides the center's
MaxNodes == 4       \* nodes of a tracing
MaxEdge == 2        \* physical length of a tracing edge
MaxMapNodes == 2    \* nodes of a mapper
MaxObj == 3         \* objects of the dataset handed to the mapper
MaxDist == 2        \* distance of an object inside the query radius from a node
MaxCpus == 2        \* worker processes of the mapper
SampleTarget == 2   \* the sample size (400 in the code) of the gt_sampling path
GiveUp == 3         \* the draws (50000 in the code) after which the sampling gives up
MaxCoord == 6       \* coordinate of a hull point
MaxHull == 4        \* points of a hull
MaxHullDist == 2    \* max_hull_dist
MaxConcom == 3      \* concom_dist
MaxSkel == 2        \* nodes of a tracing
MaxSkelCoord == 2   \* coordinate of a tracing node
MaxContacts == 3    \* contacts handed to calc_syn_dict
MaxFeat == 2        \* contact area of one contact
MaxPieces == 3      \* pieces a node comment is put together from
MaxItems == 3       \* reconstructions (or pairs) handed to one batch job
MaxSkelNodes == 2   \* nodes of the skeleton of a reconstruction

----------------------------------------------------------------------------
(* Small helpers on 3-vectors and sets. *)

Min2(a, b) == IF a <= b THEN a ELSE b
Max2(a, b) == IF a >= b THEN a ELSE b

SetMin(S) == CHOOSE x \in S : \A y \in S : x <= y
SetMax(S) == CHOOSE x \in S : \A y \in S : x >= y

VAdd(u, v) == <<u[1] + v[1], u[2] + v[2], u[3] + v[3]>>
VSub(u, v) == <<u[1] - v[1], u[2] - v[2], u[3] - v[3]>>

\* the index triples of an array of the given shape
Indices(shape) ==
    (0 .. shape[1] - 1) \X (0 .. shape[2] - 1) \X (0 .. shape[3] - 1)

RECURSIVE SumSeq(_)
SumSeq(s) == IF s = <<>> THEN 0 ELSE Head(s) + SumSeq(Tail(s))

----------------------------------------------------------------------------
(* The voxel store: syconn/reps/segmentation_helper.py *)

ObjIds == 1 .. MaxId

Shapes ==
    {s \in (1 .. MaxVol) \X (1 .. MaxVol) \X (1 .. MaxVol) :
        s[1] * s[2] * s[3] <= MaxVol}

Offsets == (0 .. MaxOffset) \X (0 .. MaxOffset) \X (0 .. MaxOffset)

\* a boolean array (its shape and the indices that are True) with its offset
Blocks ==
    UNION {[shape : {s}, mask : SUBSET Indices(s), offset : Offsets] : s \in Shapes}

\* the absolute coordinates of a block's True voxels: mask index + block offset
BlockCoords(b) == {VAdd(i, b.offset) : i \in b.mask}

\* VoxelDict.__contains__
DcContains(dc, id) == dc[id] # <<>>

\* VoxelDict.__setitem__ with ([bin_arr], [offset])
DcSet(dc, id, b) == [dc EXCEPT ![id] = <<b>>]

\* VoxelDict.append(id, bin_arr, offset)
DcAppend(dc, id, b) == [dc EXCEPT ![id] = Append(@, b)]

save_voxels_noappend(dc, id, b, overwrite) == DcSet(dc, id, b)

\* the VoxelDict that save_voxels writes back with save2pkl
save_voxels(dc, id, b, overwrite) ==
    IF DcContains(dc, id) /\ ~overwrite
    THEN DcAppend(dc, id, b)
    ELSE DcSet(dc, id, b)

\* what load_voxels returns: the dense volume (its shape and its True indices),
\* or the sentinel -1 in place of a volume
Volume(shape, true) == [sentinel |-> 0, shape |-> shape, true |-> true]
Sentinel == [sentinel |-> -1, shape |-> <<0, 0, 0>>, true |-> {}]

\* a SegmentationObject handle as constructed: nothing cached, nothing returned
NewObject(id) == [id |-> id, size |-> 0, bounding_box |-> <<>>, ret |-> Sentinel]

load_voxels_lastblock(dc, o) ==
    IF ~DcContains(dc, o.id)
    THEN [o EXCEPT !.size = 0, !.ret = Sentinel]
    ELSE
      LET b == dc[o.id][Len(dc[o.id])]
      IN  [o EXCEPT !.size = Cardinality(b.mask),
                    !.bounding_box = <<b.offset, VAdd(b.shape, b.offset)>>,
                    !.ret = Volume(b.shape, b.mask)]

\* load_voxels on the object o: the fields it sets (_size, _bounding_box) and
\* what it returns (ret: the volume, or -1 when the id is absent, the bounding
\* box being left as it was)
load_voxels(dc, o) ==
    IF ~DcContains(dc, o.id)
    THEN [o EXCEPT !.size = 0, !.ret = Sentinel]
    ELSE
      LET blocks == dc[o.id]
          n == Len(blocks)
          block_offsets == [i \in 1 .. n |-> blocks[i].offset]
          block_extents == [i \in 1 .. n |-> VAdd(blocks[i].shape, blocks[i].offset)]
          lo == [k \in 1 .. 3 |-> SetMin({block_offsets[i][k] : i \in 1 .. n})]
          hi == [k \in 1 .. 3 |-> SetMax({block_extents[i][k] : i \in 1 .. n})]
          box0(i) == VSub(block_offsets[i], lo)
      IN  [o EXCEPT
             !.size = SumSeq([i \in 1 .. n |-> Cardinality(blocks[i].mask)]),
             !.bounding_box = <<lo, hi>>,
             !.ret = Volume(VSub(hi, lo),
                            UNION {{VAdd(box0(i), j) : j \in blocks[i].mask} :
                                      i \in 1 .. n})]

NBlocks(dc) == SumSeq([i \in 1 .. MaxId |-> Len(dc[i])])

\* the object a helper is called on: the one at hand when it has this id (its
\* cached fields kept), else a newly constructed one
Handle(id) == IF so.id = id THEN [so EXCEPT !.ret = Sentinel] ELSE NewObject(id)

SaveVoxels ==
    /\ NBlocks(voxel_dc) < MaxBlocks
    /\ \E id \in ObjIds, b \in Blocks, overwrite \in BOOLEAN :
        /\ voxel_dc' = save_voxels(voxel_dc, id, b, overwrite)
        /\ saved' = [saved EXCEPT ![id] =
                        IF DcContains(voxel_dc, id) /\ ~overwrite
                        THEN @ \cup BlockCoords(b) ELSE BlockCoords(b)]
        /\ so' = NewObject(id)
        /\ last' = "save_voxels"
    /\ UNCHANGED <<callVars, files, sd>>

LoadVoxels ==
    /\ \E id \in ObjIds :
        /\ so' = load_voxels(voxel_dc, Handle(id))
        /\ last' = "load_voxels"
    /\ UNCHANGED <<voxel_dc, saved, callVars, files, sd>>

\* the keys of the voxel dicts of all shards
StoredIds(dc) == {id \in ObjIds : DcContains(dc, id)}

\* acquire_obj_ids on the dataset d: the id file is loaded when it exists,
\* else the shards are scanned and the id file is written
acquire_obj_ids(d, dc) ==
    IF d.path_ids.exists
    THEN [d EXCEPT !.ids = d.path_ids.ids]
    ELSE [d EXCEPT !.ids = StoredIds(dc), !.path_ids = [exists |-> TRUE, ids |-> StoredIds(dc)]]

AcquireObjIds ==
    /\ sd' = acquire_obj_ids(sd, voxel_dc)
    /\ last' = "acquire_obj_ids"
    /\ UNCHANGED <<voxel_dc, saved, so, callVars, files>>

\* the state before any call
InitStore ==
    /\ voxel_dc = [i \in ObjIds |-> <<>>]
    /\ saved = [i \in ObjIds |-> {}]
    /\ so = NewObject(0)
    /\ files = {}
    /\ sd = [path_ids |-> [exists |-> FALSE, ids |-> {}], ids |-> {}]
    /\ last = "none"

InitCall == ret = 0 /\ pc = "call"

----------------------------------------------------------------------------
(* glia_pred_so: syconn/reps/segmentation_helper.py *)

\* The glia column so.attr_dict[pred_key][:, 1] is given by how many of its
\* samples take each value; values and thresholds are in sixteenths, so that
\* the sums and the comparisons of the floating-point code are exact.
ProbaLevels == {0, 9, 16}
Thresholds == {8, 12}

GliaInputs ==
    {c \in [probas : [ProbaLevels -> 0 .. MaxSamples], thresh : Thresholds] :
        LET n == c.probas[0] + c.probas[9] + c.probas[16]
        IN  n >= 1 /\ n <= MaxSamples}

NSamples(probas) == probas[0] + probas[9] + probas[16]
SumProbas(probas) == 9 * probas[9] + 16 * probas[16]

\* np.sum(preds): the samples whose probability is greater than thresh
GliaVotes(probas, thresh) ==
    SumSeq([i \in 1 .. 3 |->
              LET l == IF i = 1 THEN 0 ELSE IF i = 2 THEN 9 ELSE 16
              IN  IF l > thresh THEN probas[l] ELSE 0])

RECURSIVE Pow2Floor(_)
\* the largest power of two that is at most k (k >= 1)
Pow2Floor(k) == IF k < 2 THEN 1 ELSE 2 * Pow2Floor(k \div 2)

\* int(n * 0.7) in double precision.  The double nearest 0.7 is
\* 7/10 - 2^-52/5, so n * 0.7 is 7n/10 - n * 2^-52/5 before rounding.  When
\* 7n/10 is no integer the floor is that of 7n/10.  When n = 10k the product
\* is 7k - k * 2^-51, and it rounds to a double below 7k (so that int gives
\* 7k - 1) exactly when k * 2^-51 is more than half the spacing 2^(e-52) of
\* the doubles below 7k, 2^e <= 7k < 2^(e+1): when 4k > 2^e.
IntTimes07(n) ==
    IF n % 10 = 0 /\ n > 0 /\ 4 * (n \div 10) > Pow2Floor((7 * n) \div 10)
    THEN (7 * n) \div 10 - 1
    ELSE (7 * n) \div 10

glia_pred_so(probas, thresh) ==
    LET pred == SumProbas(probas) > thresh * NSamples(probas)   \* np.mean(...) > thresh
        glia_votes == GliaVotes(probas, thresh)
    IN  IF ~pred THEN 0
        ELSE IF glia_votes > IntTimes07(NSamples(probas)) THEN 1
        ELSE 0

InitGlia == InitStore /\ InitCall /\ call \in GliaInputs

GliaPredSo ==
    /\ pc = "call"
    /\ ret' = glia_pred_so(call.probas, call.thresh)
    /\ pc' = "done"
    /\ UNCHANGED <<call, storeVars>>

----------------------------------------------------------------------------
(* The contact-site detector: syconn_deprecated/processing/contact_sites_helper.py *)

\* A label is a uint32, written as its two 16-bit halves <<high, low>>; a
\* 64-bit word is written as its four 16-bit limbs, most significant first.
U32(n) == <<n \div 2^16, n % 2^16>>

\* a > b on uint32
IdGreater(a, b) == a[1] > b[1] \/ (a[1] = b[1] /\ a[2] > b[2])

\* A numpy uint32 scalar combined with a Python int is promoted to int64: the
\* shift and the sum of kernel are computed on 64-bit two's complement words.
ToInt64(id) == <<0, 0, id[1], id[2]>>

\* w << 32 on a 64-bit word: the upper 32 bits are shifted out
Shl32(w) == <<w[3], w[4], 0, 0>>

\* v + w on 64-bit words, modulo 2^64
Add64(v, w) ==
    LET s4 == v[4] + w[4]
        s3 == v[3] + w[3] + s4 \div 2^16
        s2 == v[2] + w[2] + s3 \div 2^16
        s1 == v[1] + w[1] + s2 \div 2^16
    IN  <<s1 % 2^16, s2 % 2^16, s3 % 2^16, s4 % 2^16>>

\* The value of an int64 word: bits read as unsigned, less 2^64 when neg.
Int64(w) == [neg |-> w[1] >= 2^15, bits |-> w]

\* The value of a uint64 word (never negative).
Uint64(w) == [neg |-> FALSE, bits |-> w]

\* The cast of an int64 into the uint64 output array keeps the bits.
AsUint64(v) == Uint64(v.bits)

\* np.unique(chunk, return_counts=True) as a function label -> count
UniqueCounts(arr, window) ==
    [l \in {arr[q] : q \in window} |-> Cardinality({q \in window : arr[q] = l})]

\* unique_ids[np.argmax(counts)]: the smallest of the labels with the largest
\* count, np.unique listing the labels in ascending order
ArgMaxId(cnt, unique_ids) ==
    LET top == {u \in unique_ids : \A v \in unique_ids : cnt[v] <= cnt[u]}
    IN  CHOOSE u \in top : \A v \in top : v = u \/ IdGreater(v, u)

kernel_shl16(ucounts, center_id) ==
    LET unique_ids == DOMAIN ucounts
        counts == [u \in unique_ids |->
                     IF u = U32(0) \/ u = center_id THEN -1 ELSE ucounts[u]]
    IN  IF \E u \in unique_ids : counts[u] > 0
        THEN LET partner_id == ArgMaxId(counts, unique_ids)
                 lo == IF IdGreater(center_id, partner_id) THEN partner_id ELSE center_id
                 hi == IF IdGreater(center_id, partner_id) THEN center_id ELSE partner_id
             IN  Int64(Add64(<<0, lo[1], lo[2], 0>>, ToInt64(hi)))
        ELSE Int64(<<0, 0, 0, 0>>)

\* kernel(chunk, center_id), chunk given by np.unique's labels and counts
kernel(ucounts, center_id) ==
    LET unique_ids == DOMAIN ucounts
        counts == [u \in unique_ids |->
                     IF u = U32(0) \/ u = center_id THEN -1 ELSE ucounts[u]]
    IN  IF \E u \in unique_ids : counts[u] > 0          \* np.max(counts) > 0
        THEN LET partner_id == ArgMaxId(counts, unique_ids)
             IN  IF IdGreater(center_id, partner_id)
                 THEN Int64(Add64(Shl32(ToInt64(partner_id)), ToInt64(center_id)))
                 ELSE Int64(Add64(Shl32(ToInt64(center_id)), ToInt64(partner_id)))
        ELSE Int64(<<0, 0, 0, 0>>)

\* the stencil detect_cs hands to process_block_nonzero
Stencil == <<13, 13, 7>>

\* stencil / 2 (integer division)
StencilOffset(stencil) == <<stencil[1] \div 2, stencil[2] \div 2, stencil[3] \div 2>>

\* the six face-adjacent positions of p, those beyond the array's border taken
\* back onto it (scipy.ndimage.convolve's default mode 'reflect' repeats the
\* border voxel)
Clip(x, n) == IF x < 0 THEN 0 ELSE IF x > n - 1 THEN n - 1 ELSE x

FaceNeighbours(p, shape) ==
    [i \in 1 .. 6 |->
        LET d == IF i = 1 THEN <<-1, 0, 0>> ELSE IF i = 2 THEN <<1, 0, 0>>
                 ELSE IF i = 3 THEN <<0, -1, 0>> ELSE IF i = 4 THEN <<0, 1, 0>>
                 ELSE IF i = 5 THEN <<0, 0, -1>> ELSE <<0, 0, 1>>
        IN  <<Clip(p[1] + d[1], shape[1]), Clip(p[2] + d[2], shape[2]),
              Clip(p[3] + d[3], shape[3])>>]

\* scipy.ndimage.convolve(arr.astype(np.int), jac) at p: -6 at the center and
\* +1 at the six face-adjacent offsets
ConvolveJac(arr, shape, p) ==
    SumSeq([i \in 1 .. 6 |-> arr[FaceNeighbours(p, shape)[i]]]) - 6 * arr[p]

\* the window arr[x: x + stencil[0], y: y + stencil[1], z: z + stencil[2]]
Window(p, stencil) == {VAdd(p, d) : d \in Indices(stencil)}

\* process_block_nonzero: the positions it scans (nze) and the output array
process_block_nonzero(edges, arr, shape, stencil) ==
    LET offset == StencilOffset(stencil)
        out_shape == <<shape[1] - stencil[1] + 1, shape[2] - stencil[2] + 1,
                       shape[3] - stencil[3] + 1>>
        \* edges[offset[0]: -offset[0], ...]: a slice i: -0 is empty
        nze == {p \in Indices(out_shape) :
                    /\ \A i \in 1 .. 3 : offset[i] > 0
                    /\ edges[VAdd(p, offset)] # 0}
    IN  [nze |-> nze,
         out |-> [p \in Indices(out_shape) |->
                    IF p \in nze
                    THEN AsUint64(kernel(UniqueCounts(arr, Window(p, stencil)),
                                         arr[VAdd(p, offset)]))
                    ELSE Uint64(<<0, 0, 0, 0>>)]]

detect_cs_nonzero(arr, shape) ==
    LET edges == [p \in Indices(shape) |-> IF ConvolveJac(arr, shape, p) # 0 THEN 1 ELSE 0]
        arr32 == [p \in Indices(shape) |-> U32(arr[p])]
    IN  process_block_nonzero(edges, arr32, shape, Stencil)

\* detect_cs: edges are the voxels where the convolution is negative
detect_cs(arr, shape) ==
    LET edges == [p \in Indices(shape) |-> IF ConvolveJac(arr, shape, p) < 0 THEN 1 ELSE 0]
        arr32 == [p \in Indices(shape) |-> U32(arr[p])]
    IN  process_block_nonzero(edges, arr32, shape, Stencil)

\* A volume of two abutting constant-label blocks: label `low` where the
\* coordinate on `axis` is below `split`, the other of 1 and 2 elsewhere.
TwoBlocks(c) ==
    [p \in Indices(c.shape) |-> IF p[c.axis] < c.split THEN c.low ELSE 3 - c.low]

\* the volumes on which detect_cs's output has 1..MaxOut voxels on every axis
DetectCsInputs ==
    {c \in [op : {"detect_cs"},
            shape : (Stencil[1] .. Stencil[1] + MaxOut - 1)
                       \X (Stencil[2] .. Stencil[2] + MaxOut - 1)
                       \X (Stencil[3] .. Stencil[3] + MaxOut - 1),
            axis : 1 .. 3, split : 1 .. Stencil[1] + MaxOut - 2, low : {1, 2}] :
        c.split <= c.shape[c.axis] - 1}

InitDetectCs == InitStore /\ InitCall /\ call \in DetectCsInputs

DetectCs ==
    /\ pc = "call"
    /\ ret' = detect_cs(TwoBlocks(call), call.shape)
    /\ pc' = "done"
    /\ UNCHANGED <<call, storeVars>>

\* Labels at the ends and in the middle of the uint32 range.
IdSamples == {U32(1), U32(2), <<2^15 - 1, 2^16 - 1>>, <<2^15, 0>>, <<2^16 - 1, 2^16 - 1>>}

\* The windows around a voxel labelled center_id: the center's label and up to
\* MaxLabels other labels (0 among them), each up to MaxCount times.
KernelWindows(center_id) ==
    UNION {[S \cup {center_id} -> 1 .. MaxCount] :
             S \in {T \in SUBSET ((IdSamples \cup {U32(0)}) \ {center_id}) :
                        Cardinality(T) <= MaxLabels}}

\* One call of kernel on a window, and a second on the two-voxel window of
\* another pair of labels, to compare the keys of two pairs.
KernelInputs ==
    UNION {[op : {"kernel"}, center_id : {c}, chunk : KernelWindows(c),
            center_id2 : {d}, partner_id2 : IdSamples \ {d}] :
              <<c, d>> \in IdSamples \X IdSamples}

InitKernel == InitStore /\ InitCall /\ call \in KernelInputs

Kernel ==
    /\ pc = "call"
    /\ ret' = [key |-> kernel(call.chunk, call.center_id),
               key2 |-> kernel([u \in {call.center_id2, call.partner_id2} |-> 1],
                               call.center_id2)]
    /\ pc' = "done"
    /\ UNCHANGED <<call, storeVars>>

----------------------------------------------------------------------------
(* grow_out_soma: syconn/processing/axoness.py *)

\* A tracing: nodes 1..n, the neighbours of each node, the scaled coordinate
\* of each node (the nodes lie on a line, so that the norm of a coordinate
\* difference is an integer) and each node's data["axoness_pred"].
Abs(x) == IF x < 0 THEN -x ELSE x

Norm(a, b) == Abs(a - b)

RECURSIVE SeqOfSet(_)
\* the elements of a set of numbers in ascending order
SeqOfSet(S) == IF S = {} THEN <<>> ELSE <<SetMin(S)>> \o SeqOfSet(S \ {SetMin(S)})

InSeq(x, s) == \E i \in 1 .. Len(s) : s[i] = x

RECURSIVE DfsVisit(_, _, _)
\* nx.dfs_preorder_nodes continued at node v: `order` is the preorder so far,
\* todo the neighbours of v still to look at
DfsVisit(adj, order, stack) ==
    IF stack = <<>> THEN order
    ELSE LET top == Head(stack)
             v == top[1]
             todo == top[2]
         IN  IF todo = <<>> THEN DfsVisit(adj, order, Tail(stack))
             ELSE LET u == Head(todo)
                      rest == <<<<v, Tail(todo)>>>> \o Tail(stack)
                  IN  IF InSeq(u, order) THEN DfsVisit(adj, order, rest)
                      ELSE DfsVisit(adj, Append(order, u),
                                    <<<<u, SeqOfSet(adj[u])>>>> \o rest)

\* nx.dfs_preorder_nodes(graph, source)
DfsPreorder(adj, source) ==
    DfsVisit(adj, <<source>>, <<<<source, SeqOfSet(adj[source])>>>>)

\* assign_property2node(node, value, 'axoness')
AssignAxoness(pred, node, value) == [pred EXCEPT ![node] = value]

RECURSIVE GrowWalk(_, _, _, _, _, _)
\* the loop over the preorder of one source: distance accumulates the norm
\* between successively visited nodes; the walk ends when it exceeds max_dist
GrowWalk(order, i, coords, current, distance, st) ==
    IF i > Len(order) THEN st.pred
    ELSE LET node == order[i]
             d == distance + Norm(coords[current], coords[node])
         IN  IF d > st.max_dist THEN st.pred
             ELSE GrowWalk(order, i + 1, coords, node, d,
                           [st EXCEPT !.pred =
                              IF @[node] # 2 THEN AssignAxoness(@, node, 2) ELSE @])

RECURSIVE GrowSources(_, _, _, _)
GrowSources(sources, t, pred, max_dist) ==
    IF sources = <<>> THEN pred
    ELSE LET source == Head(sources)
         IN  GrowSources(Tail(sources), t,
                         GrowWalk(DfsPreorder(t.adj, source), 1, t.coords, source, 0,
                                  [pred |-> pred, max_dist |-> max_dist]),
                         max_dist)

grow_out_soma_strict(t, max_dist) ==
    LET soma_nodes == SeqOfSet({v \in 1 .. t.n : t.pred[v] = 2})
    IN  GrowSources(soma_nodes, t, t.pred, max_dist - 1)

\* grow_out_soma(anno, max_dist): the axoness_pred of every node afterwards
grow_out_soma(t, max_dist) ==
    LET soma_nodes == SeqOfSet({v \in 1 .. t.n : t.pred[v] = 2})
    IN  GrowSources(soma_nodes, t, t.pred, max_dist)

\* The path graphs 1 - 2 - ... - n whose only soma node is the endpoint 1.
PathAdj(n) == [v \in 1 .. n |-> {u \in {v - 1, v + 1} : u >= 1 /\ u <= n}]

RECURSIVE PathCoords(_, _)
\* the coordinates of a path whose edges have the lengths len (node 1 at 0)
PathCoords(len, k) == IF k = 1 THEN 0 ELSE PathCoords(len, k - 1) + len[k - 1]

GrowInputs ==
    UNION {[op : {"grow_out_soma"}, n : {n},
            len : [1 .. n - 1 -> 0 .. MaxEdge],
            pred : {f \in [1 .. n -> 0 .. 2] : f[1] = 2 /\ \A v \in 2 .. n : f[v] # 2},
            max_dist : 0 .. MaxEdge * (MaxNodes - 1) + 1] : n \in 2 .. MaxNodes}

InitGrow == InitStore /\ InitCall /\ call \in GrowInputs

Tracing(c) ==
    [n |-> c.n, adj |-> PathAdj(c.n),
     coords |-> [v \in 1 .. c.n |-> PathCoords(c.len, v)], pred |-> c.pred]

GrowOutSoma ==
    /\ pc = "call"
    /\ ret' = grow_out_soma(Tracing(call), call.max_dist)
    /\ pc' = "done"
    /\ UNCHANGED <<call, storeVars>>

----------------------------------------------------------------------------
(* SkeletonMapper._annotate_with_kdtree_gt_sampling:                        *)
(* syconn_deprecated/processing/mapper.py                                   *)

\* The input is what tree.query_ball_point and the norms give: for node k and
\* object o, ball[k][o] is the distance of o from node k when o lies within
\* the radius, and 0 when it does not.

\* annotation_ids, the set of the objects found
AnnoIdSet(c) == {o \in 1 .. MaxObj : \E k \in 1 .. c.n_nodes : c.ball[k][o] > 0}

\* s[i::step], i counted from 1
Stride(s, i, step) ==
    [j \in 1 .. ((Len(s) - i + step) \div step) |-> s[i + (j - 1) * step]]

RECURSIVE ConcatAll(_)
ConcatAll(ss) == IF ss = <<>> THEN <<>> ELSE Head(ss) \o ConcatAll(Tail(ss))

\* final_ids: helper_samllest_dist's ids, worker after worker
FinalIds(c) ==
    LET set_of_anno_ids == SeqOfSet(AnnoIdSet(c))
    IN  ConcatAll([i \in 1 .. c.nb_cpus |-> Stride(set_of_anno_ids, i, c.nb_cpus)])

\* final_dists: the smallest distance of an object from the nodes that found it
SmallestDist(c, o) ==
    SetMin({c.ball[k][o] : k \in {k \in 1 .. c.n_nodes : c.ball[k][o] > 0}})

RECURSIVE SquareProduct(_)
\* the product of the squares of 1..n
SquareProduct(n) == IF n = 0 THEN 1 ELSE n * n * SquareProduct(n - 1)

\* w_func(x) = a * x**(-2) + 1 with a = -0.95 * max_dist**2, as the numerator
\* of the fraction over 20 * SquareProduct(MaxDist)
Weight(x, max_dist) ==
    (20 * x * x - 19 * max_dist * max_dist) * (SquareProduct(MaxDist) \div (x * x))

\* np.cumsum(weights) before the division by normalization: numerators over
\* 20 * SquareProduct(MaxDist)
CumWeights(c) ==
    LET final_ids == FinalIds(c)
        max_dist == SetMax({SmallestDist(c, final_ids[i]) : i \in 1 .. Len(final_ids)})
    IN  [i \in 1 .. Len(final_ids) |->
           SumSeq([j \in 1 .. i |-> Weight(SmallestDist(c, final_ids[j]), max_dist)])]

\* normalization = np.sum(weights), same denominator
Normalization(c) == CumWeights(c)[Len(FinalIds(c))]

\* a / normalization < b / normalization
LessNormalized(a, b, z) == IF z > 0 THEN a < b ELSE a > b

\* The values np.argmax(cum_weights > rand_nb) takes as rand_nb ranges over
\* [0, 1): i is the first entry above rand_nb for some rand_nb exactly when
\* cum_weights[i] is positive and above every earlier entry, and every
\* earlier entry is below 1.  (The last entry is 1, so some entry is above
\* every rand_nb.)  Indices are counted from 1.
PossibleSamples(c) ==
    LET cum == CumWeights(c)
        z == Normalization(c)
    IN  {i \in 1 .. Len(cum) :
           /\ LessNormalized(0, cum[i], z)
           /\ \A j \in 1 .. i - 1 :
                 LessNormalized(cum[j], cum[i], z) /\ LessNormalized(cum[j], z, z)}

\* [[]] * (len(self.nodes) - 1) + [ids]
LastNode(c, ids) == [k \in 1 .. c.n_nodes |-> IF k = c.n_nodes THEN ids ELSE <<>>]

GtInputs ==
    {c \in UNION {[op : {"gt_sampling"}, n_nodes : {n}, nb_cpus : 1 .. MaxCpus,
                   ball : [1 .. n -> [1 .. MaxObj -> 0 .. MaxDist]]] :
                      n \in 1 .. MaxMapNodes} :
        \* a normalization of zero (a division by zero) is left out
        AnnoIdSet(c) # {} => Normalization(c) # 0}

InitGt == InitStore /\ InitCall /\ call \in GtInputs

\* the code up to the sampling loop
GtSamplingStart ==
    /\ pc = "call"
    /\ IF Cardinality(AnnoIdSet(call)) <= SampleTarget
       THEN /\ ret' = [sample_ixs |-> <<>>, cnt |-> 0,
                       out |-> LastNode(call, SeqOfSet(AnnoIdSet(call)))]
            /\ pc' = "done"
       ELSE /\ ret' = [sample_ixs |-> <<>>, cnt |-> 0, out |-> <<>>]
            /\ pc' = "loop"
    /\ UNCHANGED <<call, storeVars>>

gt_sample_append_always(sample_ixs, sample) == Append(sample_ixs, sample)

\* if not sample in sample_ixs: sample_ixs.append(sample)
gt_sample_append(sample_ixs, sample) ==
    IF ~InSeq(sample, sample_ixs) THEN Append(sample_ixs, sample) ELSE sample_ixs

\* one pass of the while loop, and the return when it is the last
GtSamplingDraw ==
    /\ pc = "loop"
    /\ \E sample \in PossibleSamples(call) :
         LET cnt == ret.cnt + 1
             sample_ixs == gt_sample_append(ret.sample_ixs, sample)
         IN  IF cnt > GiveUp \/ ~(Len(sample_ixs) < SampleTarget)
             THEN /\ ret' = [sample_ixs |-> sample_ixs, cnt |-> cnt,
                             out |-> LastNode(call,
                                       [i \in 1 .. Len(sample_ixs) |->
                                          FinalIds(call)[sample_ixs[i]]])]
                  /\ pc' = "done"
             ELSE /\ ret' = [ret EXCEPT !.sample_ixs = sample_ixs, !.cnt = cnt]
                  /\ pc' = "loop"
    /\ UNCHANGED <<call, storeVars>>

----------------------------------------------------------------------------
(* cs_btw_annos: syconn_deprecated/processing/mapper.py                     *)

\* Hull points lie on one axis: a point is its coordinate on it, and
\* np.linalg.norm, pdist and the kd-tree distances are Norm.

\* the indices of hull whose point has a point of other within max_hull_dist
\* (num_neighbours > 0 for A, contact_ids_b for B)
ContactIxs(hull, other, max_hull_dist) ==
    {i \in 1 .. Len(hull) : \E j \in 1 .. Len(other) : Norm(hull[i], other[j]) <= max_hull_dist}

\* hull[ixs], in the order of the indices
TakeIxs(hull, ixs) == LET q == SeqOfSet(ixs) IN [k \in 1 .. Len(q) |-> hull[q[k]]]

\* an entry of the sparse matrix of pdists: distances above concom_dist are
\* set to zero, and a zero is no entry
CsEdge(coords, concom_dist, p, q) ==
    /\ p # q
    /\ Norm(coords[p], coords[q]) # 0
    /\ ~(Norm(coords[p], coords[q]) > concom_dist)

RECURSIVE CsComponent(_, _, _)
\* sparse.csgraph.connected_components: the component around the points S
CsComponent(coords, concom_dist, S) ==
    LET T == S \cup {q \in 1 .. Len(coords) : \E p \in S : CsEdge(coords, concom_dist, p, q)}
    IN  IF T = S THEN S ELSE CsComponent(coords, concom_dist, T)

RECURSIVE CsComponents(_, _, _)
\* the components in the order of their first points
CsComponents(coords, concom_dist, left) ==
    IF left = {} THEN <<>>
    ELSE LET comp == CsComponent(coords, concom_dist, {SetMin(left)})
         IN  <<comp>> \o CsComponents(coords, concom_dist, left \ comp)

cs_guard_never(n, hull_a, hull_b) == FALSE

\* the 95% guard: contact_coords.shape[0] >= 0.95 * (len(hull_a) + len(hull_b))
TooManyContacts(n, hull_a, hull_b) == 20 * n >= 19 * (Len(hull_a) + Len(hull_b))

\* the coordinates both hulls have a point at: tree_a_b.query finds two
\* nearest points there
Coincident(hull_a, hull_b) ==
    {x \in 0 .. MaxCoord : InSeq(x, hull_a) /\ InSeq(x, hull_b)}

\* ids_temp >= min_id_b for a contact point at x; nearest_in_b says which of
\* two nearest points the kd-tree returns
InB(x, hull_a, hull_b, nearest_in_b) ==
    IF x \in Coincident(hull_a, hull_b) THEN nearest_in_b[x] ELSE InSeq(x, hull_b)

cs_btw_annos(hull_a, hull_b, max_hull_dist, concom_dist, nearest_in_b) ==
    LET contact_coords_a == TakeIxs(hull_a, ContactIxs(hull_a, hull_b, max_hull_dist))
        contact_coords_b == TakeIxs(hull_b, ContactIxs(hull_b, hull_a, max_hull_dist))
        contact_coords == contact_coords_a \o contact_coords_b
        comps == CsComponents(contact_coords, concom_dist, 1 .. Len(contact_coords))
        cs_list == [k \in 1 .. Len(comps) |-> TakeIxs(contact_coords, comps[k])]
    IN  IF Len(hull_a) = 0 \/ Len(hull_b) = 0
        THEN [cs_list |-> <<>>, contact_site_coord_ids |-> <<>>]
        ELSE IF TooManyContacts(Len(contact_coords), hull_a, hull_b)
        THEN [cs_list |-> <<>>, contact_site_coord_ids |-> <<>>]
        ELSE IF Len(contact_coords) = 0
        THEN [cs_list |-> <<>>, contact_site_coord_ids |-> <<>>]
        ELSE [cs_list |-> cs_list,
              contact_site_coord_ids |->
                 [k \in 1 .. Len(cs_list) |->
                    [j \in 1 .. Len(cs_list[k]) |->
                       InB(cs_list[k][j], hull_a, hull_b, nearest_in_b)]]]

\* point clouds without a repeated point, in ascending order
HullClouds ==
    {SeqOfSet(S) : S \in {S \in SUBSET (0 .. MaxCoord) : Cardinality(S) <= MaxHull}}

CsInputs ==
    [op : {"cs_btw_annos"}, hull_a : HullClouds, hull_b : HullClouds,
     max_hull_dist : 1 .. MaxHullDist, concom_dist : 1 .. MaxConcom]

InitCs == InitStore /\ InitCall /\ call \in CsInputs

CsBtwAnnos ==
    /\ pc = "call"
    /\ \E nearest_in_b \in [Coincident(call.hull_a, call.hull_b) -> BOOLEAN] :
         ret' = cs_btw_annos(call.hull_a, call.hull_b, call.max_hull_dist,
                             call.concom_dist, nearest_in_b)
    /\ pc' = "done"
    /\ UNCHANGED <<call, storeVars>>

----------------------------------------------------------------------------
(* similarity_check and syn_btw_anno_pair:                                  *)
(* syconn_deprecated/processing/mapper.py                                   *)

NbSamples == 100
SimilarThreshold == 10
MinCsArea == 50000

RECURSIVE SampleSums(_, _)
\* the sums of near[s] over n sampled indices s, for every way
\* np.random.randint can spread n samples over the entries of near
SampleSums(near, n) ==
    IF Len(near) = 1 THEN {n * near[1]}
    ELSE UNION {{k * near[1] + rest : rest \in SampleSums(Tail(near), n - k)} : k \in 0 .. n}

\* the values similarity_check can return: nb_equal counts, for every sampled
\* node of a, the nodes of b within distance 1
similarity_check(a_coords, b_coords) ==
    LET a_near == [i \in 1 .. Len(a_coords) |->
                     Cardinality({j \in 1 .. Len(b_coords) : Norm(a_coords[i], b_coords[j]) <= 1})]
    IN  {nb_equal > SimilarThreshold : nb_equal \in SampleSums(a_near, NbSamples)}

\* what convex_hull_area can give (0 also stands for its exception, which
\* leaves the area at 0)
AreaLevels == {0, 40000, 120000}

CountOf(q, v) == Cardinality({j \in 1 .. Len(q) : q[j] = v})

\* One pass of the loop over the contact sites, for every value the data
\* loaded for the pair can give: the areas of the two sub-clouds, and whether
\* a vesicle cloud or a synaptic cleft lies near.  acc carries the files
\* written, the number of nodes of pairwise_anno so far and the sites that
\* passed the area check.
SynSite(call_, csites, csite_ids, i, acc) ==
    LET csb_n == CountOf(csite_ids[i], TRUE)
        csa_n == CountOf(csite_ids[i], FALSE)
        hull == [acc EXCEPT !.pairwise_nodes = @ + Len(csites[i])]
    IN  UNION {
          {IF csb_area + csa_area < 2 * MinCsArea
             THEN hull
             ELSE IF csb_n = 0
             THEN [hull EXCEPT !.raised = TRUE]
             ELSE [hull EXCEPT
                     !.pairwise_nodes = @ + 3 + (IF vc THEN 1 ELSE 0) + (IF sj THEN 1 ELSE 0),
                     !.qualified = @ \cup {i},
                     !.files = @ \cup
                        {<<(IF vc /\ sj THEN "cs_vc_sj" ELSE IF vc THEN "cs_vc"
                            ELSE IF sj THEN "cs_sj" ELSE "cs"),
                           call_.a_filename, call_.b_filename, i>>}
                        \cup (IF sj THEN {<<"overlap_vx", call_.a_filename, call_.b_filename, i>>}
                                    ELSE {})] :
             vc \in BOOLEAN, sj \in BOOLEAN} :
          csb_area \in (IF csb_n > 3 THEN AreaLevels ELSE {0}),
          csa_area \in (IF csa_n > 3 THEN AreaLevels ELSE {0})}

RECURSIVE SynSites(_, _, _, _, _)
\* the loop over the contact sites from site i on; an exception ends it
SynSites(call_, csites, csite_ids, i, accs) ==
    IF i > Len(csites) THEN accs
    ELSE SynSites(call_, csites, csite_ids, i + 1,
                  UNION {IF acc.raised THEN {acc}
                         ELSE SynSite(call_, csites, csite_ids, i, acc) : acc \in accs})

\* if len(pairwise_anno.getNodes()) == 0: return None
syn_pairwise_empty(pairwise_nodes) == pairwise_nodes = 0

\* the end of syn_btw_anno_pair: the aggregate file of the pair
SynEnd(call_, acc) ==
    IF acc.raised THEN [acc EXCEPT !.result = "raised"]
    ELSE IF syn_pairwise_empty(acc.pairwise_nodes) THEN [acc EXCEPT !.result = "None"]
    ELSE [acc EXCEPT !.result = "0",
                     !.files = @ \cup {<<"pairwise", call_.a_filename, call_.b_filename>>}]

\* a tracing has at least two nodes (the two nearest nodes of a contact site
\* are asked for)
SkelClouds == UNION {[1 .. n -> 0 .. MaxSkelCoord] : n \in 2 .. MaxSkel}

\* the identifiers of the tracings
SkelNames == {1, 2}

SynInputs ==
    {c \in [op : {"syn_btw_anno_pair"}, a_filename : SkelNames, b_filename : SkelNames,
            max_hull_dist : 1 .. MaxHullDist, concom_dist : 1 .. MaxConcom] :
        c.a_filename <= c.b_filename}

InitSyn == InitStore /\ InitCall /\ call \in SynInputs

\* the result before anything is loaded
SynNone ==
    [result |-> "None", similar |-> FALSE, a_coords |-> <<>>, b_coords |-> <<>>,
     hull_a |-> <<>>, hull_b |-> <<>>, csites |-> <<>>, csite_ids |-> <<>>,
     qualified |-> {}, pairwise_nodes |-> 0, raised |-> FALSE, files |-> {}]

\* syn_btw_anno_pair; the tracings and hulls are what is loaded from path_a
\* and path_b
SynBtwAnnoPair ==
    /\ pc = "call"
    /\ pc' = "done"
    /\ \/ /\ call.a_filename = call.b_filename
          /\ ret' = SynNone
          /\ files' = files
       \/ /\ call.a_filename # call.b_filename
          /\ \E a_coords \in SkelClouds, b_coords \in SkelClouds :
               /\ TRUE \in similarity_check(a_coords, b_coords)
               /\ ret' = [SynNone EXCEPT !.similar = TRUE, !.a_coords = a_coords,
                                         !.b_coords = b_coords]
          /\ files' = files
       \/ /\ call.a_filename # call.b_filename
          /\ {ab \in SkelClouds \X SkelClouds : FALSE \in similarity_check(ab[1], ab[2])} # {}
          /\ \E hull_a \in HullClouds, hull_b \in HullClouds :
               \E nearest_in_b \in [Coincident(hull_a, hull_b) -> BOOLEAN] :
                 LET cs == cs_btw_annos(hull_a, hull_b, call.max_hull_dist,
                                        call.concom_dist, nearest_in_b)
                     loaded == [SynNone EXCEPT !.hull_a = hull_a, !.hull_b = hull_b,
                                               !.csites = cs.cs_list,
                                               !.csite_ids = cs.contact_site_coord_ids]
                 IN  IF Len(cs.cs_list) = 0
                     THEN ret' = loaded /\ files' = files
                     ELSE \E acc \in SynSites(call, cs.cs_list, cs.contact_site_coord_ids,
                                              1, {loaded}) :
                            /\ ret' = SynEnd(call, acc)
                            /\ files' = files \cup SynEnd(call, acc).files
    /\ UNCHANGED <<call, voxel_dc, saved, so, last, sd>>

----------------------------------------------------------------------------
(* calc_syn_dict: syconn_deprecated/processing/mapper.py                    *)

\* A contact is its axoness_info string, parsed (the two cell ids and their
\* axoness: 0 dendrite, 1 axon, 2 soma), and its row of features.

\* np.argmax(cell_axoness): the first cell unless the second has the larger
\* axoness
PreIx(c) == IF c.cell_axoness[2] > c.cell_axoness[1] THEN 2 ELSE 1

PostIx(c) == IF PreIx(c) = 1 THEN 2 ELSE 1

\* the contact is left out: both cells have the same axoness, it is not
\* axon, and get_all is off
SynSkipped(c, get_all) ==
    /\ c.cell_axoness[1] = c.cell_axoness[2]
    /\ c.cell_axoness[1] # 1
    /\ ~get_all

syn_overwrite(old, new) == new

\* syns[post_id]['cs_area'] += features[k, 1], and the same for sj_size_abs
syn_accumulate(old, new) == old + new

\* the body of the loop for contact c, when it is not skipped
SynDictAdd(pre_dict, c) ==
    LET pre_id == c.cell_ids[PreIx(c)]
        post_id == c.cell_ids[PostIx(c)]
        syn_dict == [post_id |-> post_id, post_axoness |-> c.cell_axoness[PostIx(c)],
                     cs_area |-> c.features[2], sj_size_abs |-> c.features[3],
                     sj_size_rel |-> c.features[4]]
    IN  IF pre_id \in DOMAIN pre_dict
        THEN LET syns == pre_dict[pre_id]
             IN  IF post_id \in DOMAIN syns
                 THEN [pre_dict EXCEPT ![pre_id][post_id] =
                         [@ EXCEPT !.cs_area = syn_accumulate(@, c.features[2]),
                                   !.sj_size_abs = syn_accumulate(@, c.features[3])]]
                 ELSE [pre_dict EXCEPT ![pre_id] =
                         [p \in DOMAIN syns \cup {post_id} |->
                            IF p = post_id THEN syn_dict ELSE syns[p]]]
        ELSE [p \in DOMAIN pre_dict \cup {pre_id} |->
                IF p = pre_id THEN [q \in {post_id} |-> syn_dict] ELSE pre_dict[p]]

RECURSIVE SynDictLoop(_, _, _, _)
\* the loop over axoness_info from contact k on
SynDictLoop(contacts, get_all, k, st) ==
    IF k > Len(contacts) THEN st
    ELSE IF SynSkipped(contacts[k], get_all)
    THEN SynDictLoop(contacts, get_all, k + 1, st)
    ELSE SynDictLoop(contacts, get_all, k + 1,
            [st EXCEPT !.val_syn_ixs = Append(@, k),
                       !.all_post_ids = Append(@, contacts[k].cell_ids[PostIx(contacts[k])]),
                       !.pre_dict = SynDictAdd(@, contacts[k])])

calc_syn_dict(contacts, get_all) ==
    SynDictLoop(contacts, get_all, 1,
                [val_syn_ixs |-> <<>>, all_post_ids |-> <<>>, pre_dict |-> <<>>])

\* the rows of features: the contact area in column 1, the absolute and the
\* relative size of the synaptic junction in columns 2 and 3
FeatureRows == {<<0, area, area + MaxFeat, 1>> : area \in 1 .. MaxFeat}

\* the compartment labels: dendrite, axon, soma
AxonessLabels == {0, 1, 2}

SynContacts ==
    [cell_ids : {<<1, 2>>, <<2, 1>>}, cell_axoness : AxonessLabels \X AxonessLabels,
     features : FeatureRows]

SynDictInputs ==
    [op : {"calc_syn_dict"}, get_all : BOOLEAN,
     contacts : UNION {[1 .. n -> SynContacts] : n \in 0 .. MaxContacts}]

InitSynDict == InitStore /\ InitCall /\ call \in SynDictInputs

CalcSynDict ==
    /\ pc = "call"
    /\ ret' = calc_syn_dict(call.contacts, call.get_all)
    /\ pc' = "done"
    /\ UNCHANGED <<call, storeVars>>

----------------------------------------------------------------------------
(* The patch of the axoness token in a node comment:                        *)
(* predict_axoness_of_single_mappedskel, syconn/processing/axoness.py, and  *)
(* SkeletonMapper.predict_property,                                         *)
(* syconn_deprecated/processing/mapper.py                                   *)

\* A comment is the sequence of its characters.
Token == <<"a", "x", "o", "n", "e", "s", "s">>

Digit(pred) == IF pred = 0 THEN "0" ELSE IF pred = 1 THEN "1" ELSE "2"

\* node_comment.find('axoness'): the index, from 0, of the first occurrence,
\* or -1
Find(comment) ==
    LET hits == {i \in 0 .. Len(comment) - Len(Token) :
                    \A j \in 1 .. Len(Token) : comment[i + j] = Token[j]}
    IN  IF hits = {} THEN -1 ELSE SetMin(hits)

\* node.appendComment(text)
AppendComment(comment, text) ==
    IF comment = <<>> THEN text ELSE comment \o <<" ">> \o text

patch_comment_append(comment, pred) ==
    [raised |-> FALSE, comment |-> AppendComment(comment, Token \o <<Digit(pred)>>)]

\* the patch; help_list[ax_ix+7] = str(pred) raises IndexError when the
\* comment ends with the token
patch_comment(comment, pred) ==
    LET ax_ix == Find(comment)
    IN  IF ax_ix = -1
        THEN [raised |-> FALSE, comment |-> AppendComment(comment, Token \o <<Digit(pred)>>)]
        ELSE IF ax_ix + 7 >= Len(comment)
        THEN [raised |-> TRUE, comment |-> comment]
        ELSE [raised |-> FALSE,
              comment |-> [comment EXCEPT ![ax_ix + 7 + 1] = Digit(pred)]]

\* what comments are put together from
Pieces == {Token, <<"0">>, <<"2">>, <<"x">>, <<" ">>}

Comments == UNION {{ConcatAll(ps) : ps \in [1 .. n -> Pieces]} : n \in 0 .. MaxPieces}

PatchInputs == [op : {"patch_comment"}, comment : Comments, pred : 0 .. 2]

InitPatch == InitStore /\ InitCall /\ call \in PatchInputs

\* one prediction pass over the node: the first on the comment given, the
\* second on the comment the first left
PatchComment ==
    /\ \/ /\ pc = "call"
          /\ ret' = [once |-> patch_comment(call.comment, call.pred),
                     twice |-> patch_comment(call.comment, call.pred)]
          /\ pc' = IF patch_comment(call.comment, call.pred).raised THEN "done" ELSE "once"
       \/ /\ pc = "once"
          /\ ret' = [ret EXCEPT !.twice = patch_comment(ret.once.comment, call.pred)]
          /\ pc' = "done"
    /\ UNCHANGED <<call, storeVars>>

----------------------------------------------------------------------------
(* The batch entry points: QSUB_sparsify_skeletons.py,                      *)
(* QSUB_map_viewaxoness2skel.py, QSUB_synapse_mapping.py and                *)
(* batchjob_calculate_spinehead_volume.py                                   *)

Scripts == {"sparsify_skeletons", "map_viewaxoness2skel", "synapse_mapping",
            "calculate_spinehead_volume"}

\* An item is what the job meets for one reconstruction (one pair, for the
\* synapse mapping): the nodes of its skeleton (0: there is none), whether a
\* step inside a try block raises, and whether a step outside one does.
BatchItems == [nodes : 0 .. MaxSkelNodes, caught : BOOLEAN, raises : BOOLEAN]

\* the loop body of QSUB_sparsify_skeletons.py
sparsify_item(item) ==
    IF item.raises THEN [abort |-> TRUE, saved |-> FALSE]
    ELSE IF item.nodes = 0 THEN [abort |-> FALSE, saved |-> FALSE]
    ELSE [abort |-> FALSE, saved |-> TRUE]

\* the loop body of QSUB_map_viewaxoness2skel.py: the errors of
\* cnn_axoness_2_skel and average_node_axoness_views are printed, one of
\* majority_vote_compartments ends the job
map_viewaxoness_item(item) ==
    IF item.nodes < 2 THEN [abort |-> FALSE, saved |-> FALSE]
    ELSE IF item.raises THEN [abort |-> TRUE, saved |-> FALSE]
    ELSE [abort |-> FALSE, saved |-> FALSE]

\* one pair of prepare_syns_btw_annos
synapse_mapping_item(item) == [abort |-> item.raises, saved |-> FALSE]

spinehead_item_swallow(item) ==
    IF item.nodes = 0 THEN [abort |-> TRUE, saved |-> FALSE]
    ELSE [abort |-> FALSE, saved |-> TRUE]

\* the loop body of batchjob_calculate_spinehead_volume.py: the assert on
\* load_skeleton, then extract_spinehead_volume_mesh, whose exception the
\* except block turns into another, then save_skeleton
spinehead_item(item) ==
    IF item.nodes = 0 THEN [abort |-> TRUE, saved |-> FALSE]
    ELSE IF item.raises THEN [abort |-> TRUE, saved |-> FALSE]
    ELSE [abort |-> FALSE, saved |-> TRUE]

BatchItem(script, item) ==
    IF script = "sparsify_skeletons" THEN sparsify_item(item)
    ELSE IF script = "map_viewaxoness2skel" THEN map_viewaxoness_item(item)
    ELSE IF script = "synapse_mapping" THEN synapse_mapping_item(item)
    ELSE spinehead_item(item)

\* the script writes path_out_file when its loop is over
WritesOutFile(script) == script = "calculate_spinehead_volume"

BatchInputs ==
    [op : {"batch"}, script : Scripts,
     items : UNION {[1 .. n -> BatchItems] : n \in 0 .. MaxItems}]

InitBatch == InitStore /\ InitCall /\ call \in BatchInputs

\* the job starts: the arguments are unpickled
BatchStart ==
    /\ pc = "call"
    /\ ret' = [processed |-> {}, skel_saved |-> {}, exit |-> "running"]
    /\ pc' = "loop"
    /\ UNCHANGED <<call, storeVars>>

\* one pass of the loop
BatchStep ==
    /\ pc = "loop"
    /\ Cardinality(ret.processed) < Len(call.items)
    /\ LET k == Cardinality(ret.processed) + 1
           out == BatchItem(call.script, call.items[k])
       IN  /\ ret' = [processed |-> ret.processed \cup {k},
                      skel_saved |-> IF out.saved THEN ret.skel_saved \cup {k}
                                     ELSE ret.skel_saved,
                      exit |-> IF out.abort THEN "error" ELSE "running"]
           /\ pc' = IF out.abort THEN "done" ELSE "loop"
    /\ UNCHANGED <<call, storeVars>>

\* the code after the loop, and the end of the job
BatchEnd ==
    /\ pc = "loop"
    /\ Cardinality(ret.processed) = Len(call.items)
    /\ ret' = [ret EXCEPT !.exit = "ok"]
    /\ files' = IF WritesOutFile(call.script)
                THEN files \cup {<<"path_out_file", call.script>>} ELSE files
    /\ pc' = "done"
    /\ UNCHANGED <<call, voxel_dc, saved, so, last, sd>>

----------------------------------------------------------------------------
(* enrich_tracings (brainqueries.py) and SkeletonMapper.write2kzip           *)
(* (mapper.py).  File names are sequences of characters; the directory of a  *)
(* path is dropped, as re.findall('[^/]+$', f)[0] drops it.                  *)

MaxStems == 2

StemChars == <<"a", "b", "c", "d">>

Stems == {StemChars[i] : i \in 1..MaxStems}

\* 'sub' in s
Contains(s, sub) ==
    \E i \in 0..(Len(s) - Len(sub)) : \A j \in 1..Len(sub) : s[i + j] = sub[j]

\* s[:-n]
DropLast(s, n) == SubSeq(s, 1, Len(s) - n)

KZipName(stem) == <<stem, ".", "k", ".", "z", "i", "p">>

NmlName(stem) ==
    <<stem, "_", "c", "o", "n", "s", "e", "n", "s", "u", "s", ".", "n", "m", "l">>

\* the file that write_data2kzip(kzip_path, path_to_file) creates or extends
write_data2kzip(kzip_path, path_to_file) == kzip_path

\* the nml path that write2kzip writes for the destination path
Write2kzipNml(path) ==
    IF Contains(path, <<".", "k", ".", "z", "i", "p">>) THEN DropLast(path, 5) \o <<"n", "m", "l">>
    ELSE IF Contains(path, <<".", "z", "i", "p">>) THEN DropLast(path, 3) \o <<"n", "m", "l">>
    ELSE path

\* the files under nml_obj/ after write2kzip(path): the nml and the k.zip
write2kzip(path) ==
    {Write2kzipNml(path),
     write_data2kzip(DropLast(Write2kzipNml(path), 3) \o <<"k", ".", "z", "i", "p">>,
                     Write2kzipNml(path))}

\* the names of the mapped skeletons found below output_dir
existing_skel(out, overwrite) ==
    IF ~overwrite THEN {f \in out : Contains(f, <<"k", ".", "z", "i", "p">>)} ELSE {}

todo_skel(anno_list, out, overwrite) == anno_list \ existing_skel(out, overwrite)

\* one call of enrich_tracings with an output directory and no DataHandler
enrich_tracings(anno_list, out, overwrite) ==
    IF anno_list = {}
    THEN [exit |-> "RuntimeError", processed |-> {}, written |-> {}]
    ELSE [exit |-> "ok", processed |-> todo_skel(anno_list, out, overwrite),
          written |-> UNION {write2kzip(f) : f \in todo_skel(anno_list, out, overwrite)}]

AnnoNames == {KZipName(s) : s \in Stems} \cup {NmlName(s) : s \in Stems}

EnrichInputs ==
    [op : {"enrich_tracings"}, anno_list : SUBSET AnnoNames,
     overwrite : BOOLEAN \X BOOLEAN]

InitEnrich == InitStore /\ InitCall /\ call \in EnrichInputs

\* two calls with the same input list; files holds the content of output_dir
EnrichTracings ==
    /\ \/ /\ pc = "call"
          /\ ret' = <<enrich_tracings(call.anno_list, files, call.overwrite[1])>>
          /\ files' = files \cup enrich_tracings(call.anno_list, files, call.overwrite[1]).written
          /\ pc' = "once"
       \/ /\ pc = "once"
          /\ ret' = Append(ret, enrich_tracings(call.anno_list, files, call.overwrite[2]))
          /\ files' = files \cup enrich_tracings(call.anno_list, files, call.overwrite[2]).written
          /\ pc' = "done"
    /\ UNCHANGED <<call, voxel_dc, saved, so, last, sd>>

----------------------------------------------------------------------------
(* SkeletonMapper.hull_sampling (mapper.py), from the return of the radius   *)
(* workers on: the check of the returned node indices and the write-back.    *)
(* Node indices are 0-based as in the source; positions in a list are        *)
(* 1-based.  Outlier detection is off.                                       *)

MaxHullNodes == 2
MaxRadius == 2
MaxHullPts == 1

\* radii and ixs as concatenated from the outputs of get_radii_hull, which
\* appends one radius and one index per node it handles
Radii(outputs) == [k \in 1..Len(outputs) |-> outputs[k].radius]

Ixs(outputs) == [k \in 1..Len(outputs) |-> outputs[k].ix]

\* np.argsort(ixs): positions that put ixs in ascending order (the order
\* among equal indices is not fixed)
ArgSort(ixs) ==
    CHOOSE p \in [1..Len(ixs) -> 1..Len(ixs)] :
        /\ \A i, j \in 1..Len(ixs) : i # j => p[i] # p[j]
        /\ \A i, j \in 1..Len(ixs) : i < j => ixs[p[i]] <= ixs[p[j]]

\* (ixs[ixs_sorted] == np.arange(n)).all(), for len(ixs) = n
SortedIsArange(ixs) == \A i \in 1..Len(ixs) : ixs[ArgSort(ixs)[i]] = i - 1

\* TRUE when hull_sampling raises RuntimeError for the returned indices
hull_check(ixs, n) == Len(ixs) # n \/ ~SortedIsArange(ixs)

\* the mapper after hull_sampling, and whether the call raised
hull_sampling_unchecked(m, outputs, hull_list) ==
    IF Len(Ixs(outputs)) # Len(m.nodes)
    THEN [raised |-> TRUE, mapper |-> m]
    ELSE [raised |-> FALSE,
          mapper |->
            [nodes |-> [i \in 1..Len(m.nodes) |->
                            Radii(outputs)[ArgSort(Ixs(outputs))[i]]],
             old_anno |-> [k \in 1..Len(m.old_anno) |->
                            [near |-> m.old_anno[k].near,
                             radius |-> Max2(Radii(outputs)[ArgSort(Ixs(outputs))[m.old_anno[k].near]], 1)]],
             hull_coords |-> hull_list,
             skel_radius |-> [i \in 1..Len(m.nodes) |->
                                Radii(outputs)[ArgSort(Ixs(outputs))[i]]]]]

hull_sampling(m, outputs, hull_list) ==
    IF hull_check(Ixs(outputs), Len(m.nodes))
    THEN [raised |-> TRUE, mapper |-> m]
    ELSE [raised |-> FALSE,
          mapper |->
            [nodes |-> [i \in 1..Len(m.nodes) |->
                            Radii(outputs)[ArgSort(Ixs(outputs))[i]]],
             old_anno |-> [k \in 1..Len(m.old_anno) |->
                            [near |-> m.old_anno[k].near,
                             radius |-> Max2(Radii(outputs)[ArgSort(Ixs(outputs))[m.old_anno[k].near]], 1)]],
             hull_coords |-> hull_list,
             skel_radius |-> [i \in 1..Len(m.nodes) |->
                                Radii(outputs)[ArgSort(Ixs(outputs))[i]]]]]

\* a mapper of n nodes before its first hull_sampling (no radius written,
\* nothing cached: -1 and <<>>) or after an earlier one; old_anno holds one
\* node, nearest to node near of the interpolated tracing
Mappers ==
    UNION {[nodes : {[i \in 1..n |-> -1], [i \in 1..n |-> 1]},
            old_anno : {<<[near |-> k, radius |-> -1]>> : k \in 1..n},
            hull_coords : {<<>>, <<0>>},
            skel_radius : {<<>>, [i \in 1..n |-> 1]}] : n \in 1..MaxHullNodes}

\* what the workers return: up to one entry too many, indices up to one
\* beyond the last node
WorkerOutputs ==
    UNION {[1..len -> [ix : 0..MaxHullNodes, radius : 0..MaxRadius]] :
            len \in 0..(MaxHullNodes + 1)}

HullInputs ==
    [op : {"hull_sampling"}, mapper : Mappers, outputs : WorkerOutputs,
     hull_list : {[i \in 1..k |-> i] : k \in 0..MaxHullPts}]

InitHull == InitStore /\ InitCall /\ call \in HullInputs

HullSampling ==
    /\ pc = "call"
    /\ ret' = hull_sampling(call.mapper, call.outputs, call.hull_list)
    /\ pc' = "done"
    /\ UNCHANGED <<call, storeVars>>

----------------------------------------------------------------------------
(* load_skeleton (segmentation_helper.py)                                    *)

ObjTypes == {"sv", "sj", "mi", "vc"}

EmptySkeleton == [nodes |-> <<>>, diameters |-> <<>>, edges |-> <<>>]

\* a stored skeleton of k nodes in a chain
ChainSkeleton(k) ==
    [nodes |-> [i \in 1..k |-> i], diameters |-> [i \in 1..k |-> 1],
     edges |-> [i \in 1..(k - 1) |-> <<i, i + 1>>]]

\* what skeleton_dc[so.id] finds: a skeleton, or an exception on access
SkeletonEntries == [raises : BOOLEAN, skel : {ChainSkeleton(k) : k \in 0..MaxSkelNodes}]

\* the three arrays returned, or the exception that leaves the function
load_skeleton(obj, recompute, entry) ==
    IF ~recompute /\ obj.skeleton_exists
    THEN IF entry.raises
         THEN [raised |-> "none", value |-> EmptySkeleton]
         ELSE [raised |-> "none", value |-> entry.skel]
    ELSE IF obj.type = "sv"
         THEN [raised |-> "none", value |-> EmptySkeleton]
         \* nodes is not bound when np.array(nodes, ...) is reached
         ELSE [raised |-> "UnboundLocalError", value |-> EmptySkeleton]

SkelLoadInputs ==
    [op : {"load_skeleton"},
     so : [type : ObjTypes, id : ObjIds, skeleton_exists : BOOLEAN],
     recompute : BOOLEAN, entry : SkeletonEntries]

InitSkelLoad == InitStore /\ InitCall /\ call \in SkelLoadInputs

LoadSkeleton ==
    /\ pc = "call"
    /\ ret' = load_skeleton(call.so, call.recompute, call.entry)
    /\ pc' = "done"
    /\ UNCHANGED <<call, storeVars>>

----------------------------------------------------------------------------
(* majority_processes (axoness.py)                                           *)

\* cell_classification(axoness_found): the labels most frequent among the
\* nodes
cell_classification(pred) ==
    {l \in 0..2 : \A k \in 0..2 :
        Cardinality({v \in DOMAIN pred : pred[v] = k})
            <= Cardinality({v \in DOMAIN pred : pred[v] = l})}

\* the outcomes of majority_processes on nodes labelled pred.  The first
\* loop appends the id of a soma node to soma_nodes_ids, a name that is
\* bound nowhere (the list is soma_node_ids): with a soma node the call
\* raises NameError before any label is changed.
majority_processes(pred) ==
    IF \E v \in DOMAIN pred : pred[v] = 2
    THEN {[raised |-> "NameError", pred |-> pred]}
    ELSE {[raised |-> "none", pred |-> [v \in DOMAIN pred |-> l]] :
            l \in cell_classification(pred)}

MajorityInputs ==
    UNION {[op : {"majority_processes"}, pred : [1..n -> 0..2]] : n \in 1..MaxNodes}

InitMajority == InitStore /\ InitCall /\ call \in MajorityInputs

MajorityProcesses ==
    /\ pc = "call"
    /\ ret' \in majority_processes(call.pred)
    /\ pc' = "done"
    /\ UNCHANGED <<call, storeVars>>

----------------------------------------------------------------------------
(* process_block, the full scan of contact_sites_helper.py                   *)

MaxExtra == 1

\* the chunk arr[x - offset[0]: x + offset[0] + 1, y - offset[1]: y + offset[1],
\*               z - offset[2]: z + offset[2]] around p
FullScanChunk(p, offset) ==
    ((p[1] - offset[1]) .. (p[1] + offset[1]))
        \X ((p[2] - offset[2]) .. (p[2] + offset[2] - 1))
        \X ((p[3] - offset[3]) .. (p[3] + offset[3] - 1))

\* process_block: the output array, of the shape of arr; np.max of the
\* counts of an empty chunk raises ValueError
process_block(edges, arr, shape, stencil) ==
    LET offset == StencilOffset(stencil)
        scanned == {p \in Indices(shape) :
                        /\ \A i \in 1 .. 3 : p[i] >= offset[i] /\ p[i] < shape[i] - offset[i]
                        /\ edges[p] # 0}
    IN  IF \E p \in scanned : FullScanChunk(p, offset) = {}
        THEN [raised |-> TRUE, out |-> [p \in Indices(shape) |-> Uint64(<<0, 0, 0, 0>>)]]
        ELSE [raised |-> FALSE,
              out |-> [p \in Indices(shape) |->
                         IF p \in scanned
                         THEN AsUint64(kernel(UniqueCounts(arr, FullScanChunk(p, offset)),
                                              arr[p]))
                         ELSE Uint64(<<0, 0, 0, 0>>)]]

BlockStencils == {<<3, 3, 3>>, <<1, 3, 3>>, <<3, 3, 1>>}

\* a volume of label bg with one voxel of label fg; every voxel or no voxel
\* of the background is an edge voxel, the voxel of label fg is one
BlockInputs ==
    UNION {[op : {"process_block"}, stencil : {st},
            shape : {VAdd(st, e) : e \in (0 .. MaxExtra) \X (0 .. MaxExtra) \X (0 .. MaxExtra)},
            spot : Indices(VAdd(st, <<MaxExtra, MaxExtra, MaxExtra>>)),
            bg : {1, 2}, fg : {0, 1, 2}, edge : {0, 1}] : st \in BlockStencils}

BlockArr(c) == [p \in Indices(c.shape) |-> IF p = c.spot THEN U32(c.fg) ELSE U32(c.bg)]

BlockEdges(c) == [p \in Indices(c.shape) |-> IF p = c.spot THEN 1 ELSE c.edge]

InitBlock == InitStore /\ InitCall /\ call \in BlockInputs

\* both entry paths on the same volume, edge mask and stencil
ProcessBlock ==
    /\ pc = "call"
    /\ ret' = [nonzero |-> process_block_nonzero(BlockEdges(call), BlockArr(call),
                                                 call.shape, call.stencil),
               full |-> process_block(BlockEdges(call), BlockArr(call),
                                      call.shape, call.stencil)]
    /\ pc' = "done"
    /\ UNCHANGED <<call, storeVars>>

----------------------------------------------------------------------------
(* grow_out_soma on branching tracings: the stars of a centre node and its   *)
(* leaves, the nodes on a line with the centre at 0 (leaves on both sides)   *)

MaxStarNodes == 3

StarInputs ==
    UNION {[op : {"grow_out_soma"}, n : {n}, ctr : {ctr},
            coords : {c \in [1 .. n -> (-MaxEdge) .. MaxEdge] : c[ctr] = 0},
            pred : {f \in [1 .. n -> 0 .. 2] : \E v \in 1 .. n : f[v] = 2},
            max_dist : 0 .. 2 * MaxEdge + 1] :
                <<n, ctr>> \in {x \in (3 .. MaxStarNodes) \X (1 .. MaxStarNodes) : x[2] <= x[1]}}

StarTracing(c) ==
    [n |-> c.n,
     adj |-> [v \in 1 .. c.n |-> IF v = c.ctr THEN (1 .. c.n) \ {v} ELSE {c.ctr}],
     coords |-> c.coords, pred |-> c.pred]

InitStar == InitStore /\ InitCall /\ call \in StarInputs

GrowOutSomaStar ==
    /\ pc = "call"
    /\ ret' = grow_out_soma(StarTracing(call), call.max_dist)
    /\ pc' = "done"
    /\ UNCHANGED <<call, storeVars>>

----------------------------------------------------------------------------
(* node_id2key (mapper.py).  List positions are 1-based here; the object     *)
(* indices and keys are the source's numbers.                                *)

MaxCand == 3
MaxKey == 3

\* node.index(obj): the first position holding the value obj
ListIndex(node, obj) == SetMin({k \in 1 .. Len(node) : node[k] = obj})

RECURSIVE Id2KeyLoop(_, _, _, _, _)
\* 'for obj in node' from position i on: the list is changed in place while
\* it is iterated
Id2KeyLoop(node, i, sizes, ids, filter_size) ==
    IF i > Len(node) THEN node
    ELSE LET obj == node[i]
         IN  Id2KeyLoop([node EXCEPT ![ListIndex(node, obj)] =
                            IF sizes[obj] < filter_size THEN -1 ELSE ids[obj]],
                        i + 1, sizes, ids, filter_size)

\* filter(lambda a: a != -1, node)
FilterMinus1(node) == SelectSeq(node, LAMBDA a : a # -1)

node_id2key_unfiltered(sizes, ids, node_ids, filter_size) ==
    [n \in 1 .. Len(node_ids) |-> Id2KeyLoop(node_ids[n], 1, sizes, ids, filter_size)]

node_id2key(sizes, ids, node_ids, filter_size) ==
    [n \in 1 .. Len(node_ids) |->
        FilterMinus1(Id2KeyLoop(node_ids[n], 1, sizes, ids, filter_size))]

\* the candidate lists of a node: distinct object indices
CandLists ==
    {l \in UNION {[1 .. k -> 0 .. MaxCand - 1] : k \in 0 .. MaxCand} :
        \A i, j \in 1 .. Len(l) : i # j => l[i] # l[j]}

\* the keys of the objects are distinct
Id2KeyInputs ==
    [op : {"node_id2key"}, node : CandLists,
     sizes : [0 .. MaxCand - 1 -> 0 .. 1],
     ids : {f \in [0 .. MaxCand - 1 -> 0 .. MaxKey] :
                \A i, j \in 0 .. MaxCand - 1 : i # j => f[i] # f[j]},
     filter_size : {1}]

InitId2Key == InitStore /\ InitCall /\ call \in Id2KeyInputs

NodeId2Key ==
    /\ pc = "call"
    /\ ret' = node_id2key(call.sizes, call.ids, <<call.node>>, call.filter_size)
    /\ pc' = "done"
    /\ UNCHANGED <<call, storeVars>>

----------------------------------------------------------------------------
(* load_voxel_list_downsampled_adapt and load_voxels_downsampled             *)
(* (segmentation_helper.py)                                                  *)

MaxAdaptLen == 3

\* so.voxels[::d[0], ::d[1], ::d[2]]
Downsample(voxels, d) ==
    LET shape == [k \in 1 .. 3 |-> (voxels.shape[k] + d[k] - 1) \div d[k]]
    IN  Volume(shape, {i \in Indices(shape) :
                          <<i[1] * d[1], i[2] * d[2], i[3] * d[3]>> \in voxels.true})

\* downsampling /= 2; downsampling[downsampling < 1] = 1
Halve(d) == [k \in 1 .. 3 |-> Max2(d[k] \div 2, 1)]

\* voxel_list * downsampling + bounding_box[0]
AdaptVoxelList(dvoxels, d, bb0) ==
    {VAdd(<<i[1] * d[1], i[2] * d[2], i[3] * d[3]>>, bb0) : i \in dvoxels.true}

\* objects whose voxels are materialized (a boolean volume, any mask) or not
\* (so.voxels is the int -1), with the lower corner of the bounding box
AdaptInputs ==
    UNION {[op : {"load_voxel_list_downsampled_adapt"},
            voxels : {Volume(shape, true) : true \in SUBSET Indices(shape)},
            bb0 : {<<0, 0, 0>>, <<1, 1, 1>>},
            downsampling : {<<2, 2, 1>>, <<4, 2, 1>>}] :
                shape \in (1 .. MaxAdaptLen) \X (1 .. 2) \X {1}}
    \cup [op : {"load_voxel_list_downsampled_adapt"}, voxels : {Sentinel},
          bb0 : {<<0, 0, 0>>}, downsampling : {<<2, 2, 1>>, <<4, 2, 1>>}]

\* at entry nothing is loaded yet
InitAdapt ==
    /\ InitStore
    /\ pc = "call"
    /\ call \in AdaptInputs
    /\ ret = [downsampling |-> call.downsampling, dvoxels |-> Sentinel, voxel_list |-> {},
              passes |-> 0]

\* up to the loop: load_voxels_downsampled returns [] for an int
AdaptStart ==
    /\ pc = "call"
    /\ IF call.voxels.sentinel = -1
       THEN /\ ret' = [downsampling |-> call.downsampling, dvoxels |-> Sentinel,
                       voxel_list |-> {}, passes |-> 0]
            /\ pc' = "done"
       ELSE /\ ret' = [downsampling |-> call.downsampling,
                       dvoxels |-> Downsample(call.voxels, call.downsampling),
                       voxel_list |-> {}, passes |-> 0]
            /\ pc' = "loop"
    /\ UNCHANGED <<call, storeVars>>

\* one pass of 'while True'; passes counts the passes modulo 2, so that a
\* pass that changes nothing else is still a step
AdaptLoop ==
    /\ pc = "loop"
    /\ IF ret.dvoxels.true # {}
       THEN /\ ret' = [ret EXCEPT !.voxel_list =
                          AdaptVoxelList(ret.dvoxels, ret.downsampling, call.bb0)]
            /\ pc' = "done"
       ELSE /\ ret' = [ret EXCEPT !.downsampling = Halve(@), !.passes = (@ + 1) % 2,
                                  !.dvoxels = Downsample(call.voxels, Halve(ret.downsampling))]
            /\ pc' = "loop"
    /\ UNCHANGED <<call, storeVars>>

----------------------------------------------------------------------------
(* remap_tracings (brainqueries.py): the loop over mapped_skel_paths and the *)
(* files it leaves.  dir maps the file name of each tracing to the content   *)
(* of that file in the directory the results go to.                          *)

MaxTracings == 3

\* for fpath in mapped_skel_paths: shutil.copyfile(fpath, output_dir + name)
CopyInputs(dir) == [f \in DOMAIN dir |-> "original"]

\* one pass of the loop for the tracing cnt: with an output directory every
\* input file is copied there first; then the result is written to path
\* (write2kzip, or toNml and write_data2kzip with recalc_prop_only)
remap_iteration(dir, cnt, has_output_dir) ==
    [(IF has_output_dir THEN CopyInputs(dir) ELSE dir) EXCEPT ![cnt] = "remapped"]

\* without output_dir the results replace the inputs in place; an output
\* directory can hold files of an earlier run
RemapInputs ==
    UNION {[op : {"remap_tracings"}, n : {n}, has_output_dir : {TRUE},
            recalc_prop_only : BOOLEAN,
            dir : [1 .. n -> {"absent", "original", "remapped"}]] : n \in 1 .. MaxTracings}
    \cup UNION {[op : {"remap_tracings"}, n : {n}, has_output_dir : {FALSE},
                 recalc_prop_only : BOOLEAN,
                 dir : {[f \in 1 .. n |-> "original"]}] : n \in 1 .. MaxTracings}

InitRemap == InitStore /\ InitCall /\ call \in RemapInputs

RemapStart ==
    /\ pc = "call"
    /\ ret' = [cnt |-> 0, dir |-> call.dir]
    /\ pc' = "loop"
    /\ UNCHANGED <<call, storeVars>>

RemapStep ==
    /\ pc = "loop"
    /\ ret.cnt < call.n
    /\ ret' = [cnt |-> ret.cnt + 1,
               dir |-> remap_iteration(ret.dir, ret.cnt + 1, call.has_output_dir)]
    /\ UNCHANGED <<call, pc, storeVars>>

RemapEnd ==
    /\ pc = "loop"
    /\ ret.cnt = call.n
    /\ pc' = "done"
    /\ UNCHANGED <<call, ret, storeVars>>

----------------------------------------------------------------------------
(* SkeletonMapper.annotate_objects / annotate_object and the vote counts     *)
(* write2kzip reads (mapper.py), for one object type.  The objects within    *)
(* the radius (red_ids) and the votes of each are inputs; an object's key is *)
(* its index.                                                                *)

Methods == {"hull", "supervoxel", "gt_sampling", "kd"}

\* annotate_object: the object indices handed back for the nodes, and the
\* entries of mapping_info[objtype] as pairs <<obj_id, votes>>; only
\* _annotate_with_hull and _annotate_with_supervoxels write mapping_info
annotate_object(method, red_ids, votes, min_votes) ==
    IF method \in {"hull", "supervoxel"}
    THEN [node_ids |-> {i \in red_ids : votes[i] >= min_votes},
          mapping_info |-> {<<i, votes[i]>> : i \in red_ids}]
    ELSE [node_ids |-> red_ids, mapping_info |-> {}]

\* annotate_objects: the keys stored in the type's object_dict after the
\* size filter, with the mapping_info left by annotate_object
annotate_objects(c) ==
    LET a == annotate_object(c.method, c.red_ids, c.votes, c.min_votes)
        keys == node_id2key(c.sizes, [i \in 0 .. MaxCand - 1 |-> i],
                            <<SeqOfSet(a.node_ids)>>, c.filter_size)[1]
    IN  [object_dict |-> {keys[k] : k \in 1 .. Len(keys)},
         mapping_info |-> a.mapping_info, raised |-> "none"]

\* write2kzip's loop over object_dict: self.mapping_info[type][curr_obj_id]
write2kzip_votes(m) ==
    IF \E key \in m.object_dict : ~\E e \in m.mapping_info : e[1] = key
    THEN [m EXCEPT !.raised = "KeyError"]
    ELSE m

AnnotateInputs ==
    [op : {"annotate_objects"}, method : Methods,
     red_ids : SUBSET (0 .. MaxCand - 1),
     votes : [0 .. MaxCand - 1 -> 0 .. 1], min_votes : {1},
     sizes : [0 .. MaxCand - 1 -> 0 .. 1], filter_size : {1}]

InitAnnotate == InitStore /\ InitCall /\ call \in AnnotateInputs

AnnotateObjects ==
    /\ pc = "call"
    /\ ret' = annotate_objects(call)
    /\ pc' = "annotated"
    /\ UNCHANGED <<call, storeVars>>

Write2Kzip ==
    /\ pc = "annotated"
    /\ ret' = write2kzip_votes(ret)
    /\ pc' = "done"
    /\ UNCHANGED <<call, storeVars>>

----------------------------------------------------------------------------
(* detect_synapses (brainqueries.py) and the directories syn_btw_anno_pair   *)
(* (mapper.py) writes into                                                   *)

\* the sub-directories of contact_sites/ that detect_synapses creates
DetectSynapsesDirs == {"", "cs", "cs_p4", "cs_az", "cs_p4_az", "pairwise", "overlap_vx"}

\* the per-contact directory of syn_btw_anno_pair
cs_destpath(vc_bool, sj_bool) ==
    IF vc_bool /\ sj_bool THEN "cs_vc_sj"
    ELSE IF vc_bool THEN "cs_vc"
    ELSE IF sj_bool THEN "cs_sj"
    ELSE "cs"

\* the directories the pairwise routine writes into for the qualified
\* contacts of a pair: one per contact, overlap_vx/ for a contact with a
\* cleft, and pairwise/ for the aggregate
PairwiseTargets(contacts) ==
    {cs_destpath(contacts[i].vc, contacts[i].sj) : i \in 1 .. Len(contacts)}
        \cup {"overlap_vx" : i \in {j \in 1 .. Len(contacts) : contacts[j].sj}}
        \cup {"pairwise" : i \in 1 .. Len(contacts)}

\* contact_sites/ may hold directories of an earlier run
DetectSynapsesInputs ==
    [op : {"detect_synapses"},
     existing : SUBSET {"cs", "cs_vc", "cs_sj", "cs_vc_sj", "pairwise"},
     contacts : UNION {[1 .. n -> [vc : BOOLEAN, sj : BOOLEAN]] : n \in 0 .. MaxContacts}]

InitDetectSynapses == InitStore /\ InitCall /\ call \in DetectSynapsesInputs

\* up to the dispatch: os.makedirs for every missing directory of the list
DetectSynapses ==
    /\ pc = "call"
    /\ ret' = [dirs |-> call.existing \cup DetectSynapsesDirs, targets |-> {},
               raised |-> "none"]
    /\ pc' = "dispatched"
    /\ UNCHANGED <<call, storeVars>>

\* the pairwise detection of one pair: writing into a missing directory
\* raises IOError
PairwiseDetection ==
    /\ pc = "dispatched"
    /\ ret' = [ret EXCEPT !.targets = PairwiseTargets(call.contacts),
                          !.raised = IF PairwiseTargets(call.contacts) \subseteq ret.dirs
                                     THEN "none" ELSE "IOError"]
    /\ pc' = "done"
    /\ UNCHANGED <<call, storeVars>>

----------------------------------------------------------------------------
(* Concurrent extract_pre_cs_thread workers (contact_sites_helper.py), each  *)
(* saving one block with save_voxels into the same shard.  save_voxels opens *)
(* the VoxelDict with disable_locking=True: the shard file is read when the  *)
(* dict is opened, changed in memory and written back by save2pkl.           *)

Workers == {1, 2}

\* the blocks of single True voxels along the first axis
WorkerBlocks ==
    {b \in Blocks : b.shape = <<1, 1, 1>> /\ b.mask # {} /\ b.offset[2] = 0 /\ b.offset[3] = 0}

ThreadInputs ==
    [op : {"extract_pre_cs_thread"},
     work : [Workers -> [id : ObjIds, block : WorkerBlocks]]]

InitThreads == InitStore /\ InitCall /\ call \in ThreadInputs

ThreadsStart ==
    /\ pc = "call"
    /\ ret' = [w \in Workers |-> [at |-> "open", local |-> voxel_dc]]
    /\ pc' = "running"
    /\ UNCHANGED <<call, storeVars>>

\* VoxelDict(so.voxel_path, ..., disable_locking=True): the shard as stored now
WorkerOpen(w) ==
    /\ pc = "running"
    /\ ret[w].at = "open"
    /\ ret' = [ret EXCEPT ![w] = [at |-> "modify", local |-> voxel_dc]]
    /\ UNCHANGED <<call, pc, storeVars>>

\* the append or assignment of save_voxels, on the worker's copy
WorkerModify(w) ==
    /\ pc = "running"
    /\ ret[w].at = "modify"
    /\ ret' = [ret EXCEPT ![w] =
                 [at |-> "save2pkl",
                  local |-> save_voxels(ret[w].local, call.work[w].id,
                                        call.work[w].block, FALSE)]]
    /\ UNCHANGED <<call, pc, storeVars>>

\* voxel_dc.save2pkl(so.voxel_path): the worker's copy replaces the shard file
WorkerSave2pkl(w) ==
    /\ pc = "running"
    /\ ret[w].at = "save2pkl"
    /\ voxel_dc' = ret[w].local
    /\ ret' = [ret EXCEPT ![w].at = "finished"]
    /\ UNCHANGED <<call, pc, saved, so, last, files, sd>>

ThreadsEnd ==
    /\ pc = "running"
    /\ \A w \in Workers : ret[w].at = "finished"
    /\ pc' = "done"
    /\ UNCHANGED <<call, ret, storeVars>>

NextThreads ==
    \/ ThreadsStart
    \/ \E w \in Workers : WorkerOpen(w) \/ WorkerModify(w) \/ WorkerSave2pkl(w)
    \/ ThreadsEnd

----------------------------------------------------------------------------
(* The comment patch of SkeletonMapper.calc_myelinisation (mapper.py)        *)

MyelinToken == <<"m", "y", "e", "l", "i", "n">>

\* node_comment.find('myelin'): the index, from 0, of the first occurrence,
\* or -1
FindMyelin(comment) ==
    LET hits == {i \in 0 .. Len(comment) - Len(MyelinToken) :
                    \A j \in 1 .. Len(MyelinToken) : comment[i + j] = MyelinToken[j]}
    IN  IF hits = {} THEN -1 ELSE SetMin(hits)

\* the comment after the patch: help_list[ax_ix+5] = myelin_b
myelin_patch(comment, myelin_b) ==
    LET ax_ix == FindMyelin(comment)
    IN  IF ax_ix = -1
        THEN AppendComment(comment, MyelinToken \o <<myelin_b>>)
        ELSE [comment EXCEPT ![ax_ix + 5 + 1] = myelin_b]

\* comments put together from up to MaxPieces pieces, and the flags of two
\* successive calls
MyelinInputs ==
    [op : {"calc_myelinisation"},
     comment : UNION {{ConcatAll(ps) : ps \in [1 .. n -> {MyelinToken, <<"0">>, <<"1">>,
                                                        <<"x">>, <<" ">>}]} :
                        n \in 0 .. MaxPieces},
     myelin_b : {"0", "1"} \X {"0", "1"}]

InitMyelin == InitStore /\ InitCall /\ call \in MyelinInputs

\* the patch of one node in a first and in a second call
CalcMyelinisation ==
    /\ \/ /\ pc = "call"
          /\ ret' = [once |-> myelin_patch(call.comment, call.myelin_b[1]),
                     twice |-> myelin_patch(call.comment, call.myelin_b[1])]
          /\ pc' = "once"
       \/ /\ pc = "once"
          /\ ret' = [ret EXCEPT !.twice = myelin_patch(ret.once, call.myelin_b[2])]
          /\ pc' = "done"
    /\ UNCHANGED <<call, storeVars>>

----------------------------------------------------------------------------

Init == InitStore /\ InitCall /\ call = [op |-> "none"]

NextVoxel == SaveVoxels \/ LoadVoxels

SpecVoxel == Init /\ [][NextVoxel]_vars

NextIds == SaveVoxels \/ AcquireObjIds

SpecIds == Init /\ [][NextIds]_vars

SpecGlia == InitGlia /\ [][GliaPredSo]_vars

SpecDetectCs == InitDetectCs /\ [][DetectCs]_vars

SpecCs == InitCs /\ [][CsBtwAnnos]_vars

SpecSyn == InitSyn /\ [][SynBtwAnnoPair]_vars

SpecSynDict == InitSynDict /\ [][CalcSynDict]_vars

SpecPatch == InitPatch /\ [][PatchComment]_vars

SpecBatch == InitBatch /\ [][BatchStart \/ BatchStep \/ BatchEnd]_vars

SpecEnrich == InitEnrich /\ [][EnrichTracings]_vars

SpecHull == InitHull /\ [][HullSampling]_vars

SpecSkelLoad == InitSkelLoad /\ [][LoadSkeleton]_vars

SpecMajority == InitMajority /\ [][MajorityProcesses]_vars

SpecBlock == InitBlock /\ [][ProcessBlock]_vars

SpecStar == InitStar /\ [][GrowOutSomaStar]_vars

SpecId2Key == InitId2Key /\ [][NodeId2Key]_vars

SpecAdapt ==
    InitAdapt /\ [][AdaptStart \/ AdaptLoop]_vars /\ WF_vars(AdaptStart \/ AdaptLoop)

SpecRemap == InitRemap /\ [][RemapStart \/ RemapStep \/ RemapEnd]_vars

SpecAnnotate == InitAnnotate /\ [][AnnotateObjects \/ Write2Kzip]_vars

SpecDetectSynapses ==
    InitDetectSynapses /\ [][DetectSynapses \/ PairwiseDetection]_vars

SpecThreads == InitThreads /\ [][NextThreads]_vars

SpecMyelin == InitMyelin /\ [][CalcMyelinisation]_vars

SpecGt == InitGt /\ [][GtSamplingStart \/ GtSamplingDraw]_vars

SpecGrow == InitGrow /\ [][GrowOutSoma]_vars

SpecKernel == InitKernel /\ [][Kernel]_vars

----------------------------------------------------------------------------
(* C1: after save_voxels on a fresh object id (one block or several blocks *)
(* appended to the same id), load_voxels returns a volume whose True       *)
(* voxels, shifted by the origin of the bounding box it sets, are exactly  *)
(* the saved True-voxel coordinates (mask index + block offset).           *)
C1_RoundTrip ==
    (last = "load_voxels" /\ so.ret.sentinel = 0) =>
        {VAdd(v, so.bounding_box[1]) : v \in so.ret.true} = saved[so.id]

\* a load of an id holding two blocks with True voxels at different places
C1_Witness ==
    /\ last = "load_voxels"
    /\ so.ret.sentinel = 0
    /\ Len(voxel_dc[so.id]) = 2
    /\ BlockCoords(voxel_dc[so.id][1]) # {}
    /\ BlockCoords(voxel_dc[so.id][2]) \ BlockCoords(voxel_dc[so.id][1]) # {}
    /\ voxel_dc[so.id][1].offset # voxel_dc[so.id][2].offset

(* C2: glia_pred_so returns 1 exactly when the mean of the glia column is   *)
(* greater than the threshold and strictly more than 70% of the samples are *)
(* greater than the threshold; in every other case it returns 0.            *)
C2_GliaRule ==
    pc = "done" =>
        (ret = 1) <=>
            /\ SumProbas(call.probas) > call.thresh * NSamples(call.probas)
            /\ 10 * GliaVotes(call.probas, call.thresh) > 7 * NSamples(call.probas)

----------------------------------------------------------------------------
\* the voxel of the volume that output position p stands for
C3_Center(p) == VAdd(p, StencilOffset(Stencil))

\* the labels of the face neighbours of a voxel inside the volume
C3_NeighbourLabels(v) ==
    {TwoBlocks(call)[FaceNeighbours(v, call.shape)[i]] : i \in 1 .. 6}

(* C3 as claimed: on two abutting constant-label blocks (labels 1 and 2)    *)
(* detect_cs flags, inside the region the block driver scans, exactly the   *)
(* voxels that have a face neighbour of the other label, and every flagged  *)
(* voxel gets the key (1 << 32) + 2.                                        *)
C3_BothSidesFlagged ==
    pc = "done" =>
        /\ ret.nze = {p \in DOMAIN ret.out :
                        C3_NeighbourLabels(C3_Center(p)) = {1, 2}}
        /\ \A p \in ret.nze : ret.out[p] = Uint64(<<0, 1, 0, 2>>)

(* C3 amended: detect_cs flags, inside the region the block driver scans,   *)
(* exactly the voxels of label 2 that have a face neighbour of label 1 (the *)
(* face-adjacent layer on the side of the larger label; the label-1 voxels  *)
(* facing it are not flagged); every flagged voxel gets the key             *)
(* (1 << 32) + 2 and every other voxel of the output is 0.                  *)
C3_LargerSideFlagged ==
    pc = "done" =>
        /\ ret.nze = {p \in DOMAIN ret.out :
                        /\ TwoBlocks(call)[C3_Center(p)] = 2
                        /\ 1 \in C3_NeighbourLabels(C3_Center(p))}
        /\ \A p \in DOMAIN ret.out :
              ret.out[p] = IF p \in ret.nze THEN Uint64(<<0, 1, 0, 2>>)
                           ELSE Uint64(<<0, 0, 0, 0>>)

\* the shared face runs through the scanned region: voxels of both labels
\* next to it are scanned, and one is flagged
C3_Witness ==
    /\ pc = "done"
    /\ ret.nze # {}
    /\ \E p \in DOMAIN ret.out :
          /\ TwoBlocks(call)[C3_Center(p)] = 1
          /\ 2 \in C3_NeighbourLabels(C3_Center(p))

----------------------------------------------------------------------------
\* the non-zero labels of the window other than the center's
C4_Others == {u \in DOMAIN call.chunk : u # U32(0) /\ u # call.center_id}

\* the most frequent of them (the smallest, when several are)
C4_Partner ==
    LET top == {u \in C4_Others : \A v \in C4_Others : call.chunk[v] <= call.chunk[u]}
    IN  CHOOSE u \in top : \A v \in top : v = u \/ IdGreater(v, u)

\* the 64-bit word (min(a, b) << 32) + max(a, b)
C4_Pack(a, b) ==
    IF IdGreater(a, b) THEN <<b[1], b[2], a[1], a[2]>> ELSE <<a[1], a[2], b[1], b[2]>>

(* C4 as claimed: kernel returns 0 when the window holds no non-zero label  *)
(* other than the center's; otherwise it returns (min << 32) + max of the   *)
(* center and the most frequent such label p, a value that fits in an       *)
(* unsigned 64-bit word, is the same whichever of the two is the center and *)
(* differs between different unordered pairs.                               *)
C4_KernelReturnsKey ==
    pc = "done" =>
        /\ C4_Others = {} => ret.key = Uint64(<<0, 0, 0, 0>>)
        /\ C4_Others # {} => ret.key = Uint64(C4_Pack(call.center_id, C4_Partner))
        /\ ret.key2 = Uint64(C4_Pack(call.center_id2, call.partner_id2))
        /\ (C4_Others # {} /\ {call.center_id, C4_Partner} # {call.center_id2, call.partner_id2})
              => ret.key # ret.key2

(* C4 amended: the key as process_block_nonzero stores it in its uint64     *)
(* output is 0 when the window holds no non-zero label other than the       *)
(* center's and (min << 32) + max otherwise; the stored key is the same     *)
(* whichever of the two ids is the center and differs between different     *)
(* unordered pairs.  The value kernel returns is that key when min < 2^31   *)
(* and that key less 2^64 (a negative int64) when min >= 2^31.              *)
C4_StoredKey ==
    pc = "done" =>
        /\ C4_Others = {} => ret.key = Uint64(<<0, 0, 0, 0>>)
        /\ C4_Others # {} =>
              LET key == C4_Pack(call.center_id, C4_Partner)
              IN  /\ AsUint64(ret.key) = Uint64(key)
                  /\ ret.key = [neg |-> key[1] >= 2^15, bits |-> key]
        /\ AsUint64(ret.key2) = Uint64(C4_Pack(call.center_id2, call.partner_id2))
        /\ (C4_Others # {} /\ {call.center_id, C4_Partner} = {call.center_id2, call.partner_id2})
              => AsUint64(ret.key) = AsUint64(ret.key2)
        /\ (C4_Others # {} /\ {call.center_id, C4_Partner} # {call.center_id2, call.partner_id2})
              => AsUint64(ret.key) # AsUint64(ret.key2)

\* the two ids are 2^31 and 2^32 - 1, seen from either side, with a less
\* frequent third label and background in the window
C4_Witness ==
    /\ pc = "done"
    /\ call.center_id = <<2^16 - 1, 2^16 - 1>>
    /\ C4_Others # {} /\ C4_Partner = <<2^15, 0>>
    /\ Cardinality(DOMAIN call.chunk) > 2
    /\ call.center_id2 = <<2^15, 0>> /\ call.partner_id2 = <<2^16 - 1, 2^16 - 1>>
    /\ ret.key.neg

----------------------------------------------------------------------------
\* the physical length of the path from node 1 to node v
C5_PathLength(v) == SumSeq([i \in 1 .. v - 1 |-> call.len[i]])

(* C5 as claimed: on a path whose only soma node is an endpoint, with       *)
(* max_dist above the path's total length every node is soma afterwards;    *)
(* with max_dist exactly the distance to the second node, the second node   *)
(* is relabelled soma and no node beyond it is.                             *)
C5_OnlySecondNode ==
    pc = "done" =>
        /\ call.max_dist > C5_PathLength(call.n) => \A v \in 1 .. call.n : ret[v] = 2
        /\ call.max_dist = call.len[1] =>
              /\ ret[2] = 2
              /\ \A v \in 3 .. call.n : ret[v] # 2

(* C5 amended: with max_dist above the path's total length every node is    *)
(* soma afterwards; with max_dist exactly the distance to the second node,  *)
(* the second node is relabelled soma, and a node beyond it is relabelled   *)
(* only if it lies at path distance zero from the second node (every edge   *)
(* between them has length zero); nodes farther along keep their label.     *)
C5_WithinBudget ==
    pc = "done" =>
        /\ call.max_dist > C5_PathLength(call.n) => \A v \in 1 .. call.n : ret[v] = 2
        /\ call.max_dist = call.len[1] =>
              /\ ret[2] = 2
              /\ \A v \in 3 .. call.n :
                    ret[v] = IF C5_PathLength(v) = C5_PathLength(2) THEN 2 ELSE call.pred[v]

\* max_dist is the distance to the second node, and a third node lies
\* farther along the path
C5_Witness ==
    /\ pc = "done"
    /\ call.n >= 3
    /\ call.len[1] > 0 /\ call.len[2] > 0
    /\ call.max_dist = call.len[1]
    /\ ret[2] = 2 /\ ret[3] # 2

----------------------------------------------------------------------------
\* the entries returned for the last node
C6_Last == ret.out[call.n_nodes]

C6_NoRepeat(q) == \A i, j \in 1 .. Len(q) : q[i] = q[j] => i = j

(* C6 as claimed: every node but the last is empty; with fewer candidates   *)
(* than the sample size the last node holds all candidates; with more, the  *)
(* last node holds exactly as many entries as the sample size, each a       *)
(* candidate and none repeated, for every outcome of the random draws.      *)
C6_ExactlySampleSize ==
    pc = "done" =>
        /\ \A k \in 1 .. call.n_nodes - 1 : ret.out[k] = <<>>
        /\ Cardinality(AnnoIdSet(call)) < SampleTarget =>
              C6_Last = SeqOfSet(AnnoIdSet(call))
        /\ Cardinality(AnnoIdSet(call)) > SampleTarget =>
              /\ Len(C6_Last) = SampleTarget
              /\ \A i \in 1 .. Len(C6_Last) : C6_Last[i] \in AnnoIdSet(call)
              /\ C6_NoRepeat(C6_Last)

(* C6 amended: every node but the last is empty; with fewer candidates than *)
(* the sample size the last node holds all candidates; with more, the last  *)
(* node holds at most as many entries as the sample size, each a candidate  *)
(* and none repeated, and it holds fewer only when the loop gave up after   *)
(* its cap of draws was exceeded.                                           *)
C6_AtMostSampleSize ==
    pc = "done" =>
        /\ \A k \in 1 .. call.n_nodes - 1 : ret.out[k] = <<>>
        /\ Cardinality(AnnoIdSet(call)) < SampleTarget =>
              C6_Last = SeqOfSet(AnnoIdSet(call))
        /\ Cardinality(AnnoIdSet(call)) > SampleTarget =>
              /\ Len(C6_Last) <= SampleTarget
              /\ Len(C6_Last) < SampleTarget => ret.cnt = GiveUp + 1
              /\ \A i \in 1 .. Len(C6_Last) : C6_Last[i] \in AnnoIdSet(call)
              /\ C6_NoRepeat(C6_Last)

\* more candidates than the sample size, a draw that repeated an index, and
\* a full sample in the end
C6_Witness ==
    /\ pc = "done"
    /\ Cardinality(AnnoIdSet(call)) > SampleTarget
    /\ Len(C6_Last) = SampleTarget
    /\ ret.cnt > SampleTarget

----------------------------------------------------------------------------
\* the pairs of a point of A and a point of B within max_hull_dist
C7_ClosePairs ==
    {ij \in (1 .. Len(call.hull_a)) \X (1 .. Len(call.hull_b)) :
        Norm(call.hull_a[ij[1]], call.hull_b[ij[2]]) <= call.max_hull_dist}

(* C7: when exactly one point of A and one point of B lie within            *)
(* max_hull_dist of each other (coincident or not), the two contact points  *)
(* are fewer than 95% of the combined hull, and concom_dist is at least     *)
(* max_hull_dist, cs_btw_annos returns exactly one contact site, made of    *)
(* exactly that pair; when every pairwise distance exceeds max_hull_dist it *)
(* returns no contact site.                                                 *)
C7_OnePairOneSite ==
    (pc = "done" /\ call.concom_dist >= call.max_hull_dist) =>
        /\ (Cardinality(C7_ClosePairs) = 1 /\ ~TooManyContacts(2, call.hull_a, call.hull_b)) =>
              \A ij \in C7_ClosePairs :
                 ret.cs_list = << <<call.hull_a[ij[1]], call.hull_b[ij[2]]>> >>
        /\ (C7_ClosePairs = {} /\ call.hull_a # <<>> /\ call.hull_b # <<>>) =>
              ret.cs_list = <<>>

----------------------------------------------------------------------------
\* the contact points of the pair loaded: the points of one hull within
\* max_hull_dist of a point of the other
C8_Contacts ==
    Cardinality({i \in 1 .. Len(ret.hull_a) : \E j \in 1 .. Len(ret.hull_b) :
                    Norm(ret.hull_a[i], ret.hull_b[j]) <= call.max_hull_dist})
    + Cardinality({j \in 1 .. Len(ret.hull_b) : \E i \in 1 .. Len(ret.hull_a) :
                    Norm(ret.hull_a[i], ret.hull_b[j]) <= call.max_hull_dist})

(* C8: when the two tracings share an identifier, or the similarity check   *)
(* finds more than 10 coincident sampled nodes, or cs_btw_annos returns no  *)
(* contact site (no point of one hull within max_hull_dist of the other, or *)
(* the contact points are at least 95% of the combined hull),               *)
(* syn_btw_anno_pair returns the null result without raising and no         *)
(* per-contact, overlap or per-pair file is written.                        *)
C8_DegenerateSkip ==
    (/\ pc = "done"
     /\ \/ call.a_filename = call.b_filename
        \/ ret.similar
        \/ ret.csites = <<>>
        \/ C8_Contacts = 0
        \/ 20 * C8_Contacts >= 19 * (Len(ret.hull_a) + Len(ret.hull_b)))
    => (ret.result = "None" /\ files = {})

\* a pair with different identifiers that passed the similarity check, whose
\* hulls touch, and which the 95% guard turned away
C8_Witness ==
    /\ pc = "done"
    /\ call.a_filename # call.b_filename
    /\ ~ret.similar
    /\ C8_Contacts > 0
    /\ 20 * C8_Contacts >= 19 * (Len(ret.hull_a) + Len(ret.hull_b))
    /\ ret.result = "None"
    /\ files = {}

(* C9: an aggregate per-pair file under pairwise/ is written only when at   *)
(* least one contact site passed the minimum-area check and got its own     *)
(* per-contact file; when no site qualifies nothing is written under        *)
(* pairwise/.                                                               *)
C9_AggregateOnlyIfQualified ==
    (pc = "done" /\ <<"pairwise", call.a_filename, call.b_filename>> \in files) =>
        \E i \in ret.qualified :
           \E dir \in {"cs", "cs_vc", "cs_sj", "cs_vc_sj"} :
              <<dir, call.a_filename, call.b_filename, i>> \in files

----------------------------------------------------------------------------
\* the valid contacts of the call whose presynaptic and postsynaptic ids are
\* pre and post
C10_Contacts(pre, post) ==
    {k \in 1 .. Len(call.contacts) :
        /\ ~SynSkipped(call.contacts[k], call.get_all)
        /\ call.contacts[k].cell_ids[PreIx(call.contacts[k])] = pre
        /\ call.contacts[k].cell_ids[PostIx(call.contacts[k])] = post}

RECURSIVE C10_Sum(_, _)
\* the sum of column col of the features of the contacts K
C10_Sum(K, col) ==
    IF K = {} THEN 0
    ELSE LET k == CHOOSE k \in K : TRUE
         IN  call.contacts[k].features[col] + C10_Sum(K \ {k}, col)

(* C10: for every (presynaptic id, postsynaptic id) pair that one or more   *)
(* valid contacts have, whatever their order, calc_syn_dict's mapping holds *)
(* one record, whose cs_area and sj_size_abs are the sums of the feature    *)
(* values of all those contacts; a pair no valid contact has has no record. *)
C10_SumsPerPair ==
    pc = "done" =>
        \A pre \in 1 .. 2, post \in 1 .. 2 :
           IF C10_Contacts(pre, post) = {}
           THEN ~(pre \in DOMAIN ret.pre_dict /\ post \in DOMAIN ret.pre_dict[pre])
           ELSE /\ pre \in DOMAIN ret.pre_dict
                /\ post \in DOMAIN ret.pre_dict[pre]
                /\ ret.pre_dict[pre][post].cs_area = C10_Sum(C10_Contacts(pre, post), 2)
                /\ ret.pre_dict[pre][post].sj_size_abs = C10_Sum(C10_Contacts(pre, post), 3)

\* two contacts of one pair with different areas, with a contact of the
\* opposite pair listed between them
C10_Witness ==
    /\ pc = "done"
    /\ C10_Contacts(1, 2) = {1, 3}
    /\ C10_Contacts(2, 1) = {2}
    /\ call.contacts[1].features[2] # call.contacts[3].features[2]
    /\ ret.pre_dict[1][2].cs_area = call.contacts[1].features[2] + call.contacts[3].features[2]

----------------------------------------------------------------------------
\* the mapping calc_syn_dict gives for the contacts of the call without
\* contact k
C11_Without(k) ==
    calc_syn_dict([j \in 1 .. Len(call.contacts) - 1 |->
                      IF j < k THEN call.contacts[j] ELSE call.contacts[j + 1]],
                  call.get_all).pre_dict

(* C11: with get_all off, every contact whose two cells carry the same      *)
(* compartment label (axon-axon as well as dendrite-dendrite) is discarded: *)
(* its index is not among the valid contacts returned and the mapping is    *)
(* what it would be without the contact.                                    *)
C11_SameLabelDiscarded ==
    (pc = "done" /\ ~call.get_all) =>
        \A k \in 1 .. Len(call.contacts) :
           call.contacts[k].cell_axoness[1] = call.contacts[k].cell_axoness[2] =>
              /\ ~InSeq(k, ret.val_syn_ixs)
              /\ ret.pre_dict = C11_Without(k)

(* C12: every kept contact in which exactly one cell is labelled axon (1)   *)
(* and the other dendrite (0) or soma (2) is recorded under the axon cell's *)
(* id as presynaptic key, with the other cell's id as the post_id of the    *)
(* record.                                                                  *)
C12_AxonIsPre ==
    pc = "done" =>
        \A k \in 1 .. Len(call.contacts) :
           LET c == call.contacts[k]
           IN  \A ax \in 1 .. 2 :
                  (c.cell_axoness[ax] = 1 /\ c.cell_axoness[3 - ax] # 1 /\ InSeq(k, ret.val_syn_ixs)) =>
                     /\ c.cell_ids[ax] \in DOMAIN ret.pre_dict
                     /\ c.cell_ids[3 - ax] \in DOMAIN ret.pre_dict[c.cell_ids[ax]]
                     /\ ret.pre_dict[c.cell_ids[ax]][c.cell_ids[3 - ax]].post_id = c.cell_ids[3 - ax]

----------------------------------------------------------------------------
----------------------------------------------------------------------------
(* C14: every batch entry point that ran to normal completion has created   *)
(* the output file named by its second argument.                            *)
C14_OutFileOnCompletion ==
    (pc = "done" /\ ret.exit = "ok") => <<"path_out_file", call.script>> \in files

----------------------------------------------------------------------------
\* the reconstructions of the spine-head job whose skeleton loads and whose
\* spine-head extraction raises, every earlier one having gone through
C20_Failing ==
    {k \in 1 .. Len(call.items) :
        /\ call.script = "calculate_spinehead_volume"
        /\ call.items[k].nodes > 0 /\ call.items[k].raises
        /\ \A j \in 1 .. k - 1 : call.items[j].nodes > 0 /\ ~call.items[j].raises}

(* C20: when spine-head extraction raises for a reconstruction of the       *)
(* batch, the job ends with an error there: the failing reconstruction's    *)
(* skeleton is not saved, no later reconstruction is processed, the output  *)
(* marker file is not written, and the skeletons saved for the earlier      *)
(* reconstructions stay saved.                                              *)
C20_AbortAtFailure ==
    pc \in {"loop", "done"} =>
        \A k \in C20_Failing :
           /\ (k \in ret.processed) =>
                 /\ pc = "done"
                 /\ ret.exit = "error"
                 /\ ret.processed = 1 .. k
                 /\ ret.skel_saved = 1 .. k - 1
           /\ pc = "done" => k \in ret.processed
           /\ ret.skel_saved \subseteq 1 .. k - 1
           /\ <<"path_out_file", call.script>> \notin files

\* a job that saved the skeleton of its first reconstruction, failed at the
\* second and left a third untouched
C20_Witness ==
    /\ pc = "done"
    /\ 2 \in C20_Failing
    /\ Len(call.items) = 3
    /\ ret.exit = "error"
    /\ ret.skel_saved = {1}
    /\ ret.processed = {1, 2}

----------------------------------------------------------------------------
(* C15 as claimed: after any sequence of save_voxels and acquire_obj_ids    *)
(* calls, the id set acquire_obj_ids leaves in the dataset is the full set  *)
(* of object ids stored in the shards.                                      *)
C15_FullIdSet ==
    last = "acquire_obj_ids" => sd.ids = StoredIds(voxel_dc)

----------------------------------------------------------------------------
(* C16: a second enrich_tracings call with the same input list after a      *)
(* completed first call, with overwrite = false, processes no tracing and   *)
(* rewrites no file, for .k.zip and consensus.nml inputs alike; with        *)
(* overwrite = true it processes every input again.                         *)
C16_SecondCallIdle ==
    (pc = "done" /\ ret[1].exit = "ok") =>
        IF call.overwrite[2]
        THEN ret[2].processed = call.anno_list
        ELSE ret[2].processed = {} /\ ret[2].written = {}

----------------------------------------------------------------------------
(* C17: hull_sampling raises exactly when the node indices returned by the  *)
(* radius workers are not a complete permutation of 0..n-1; when it raises, *)
(* no node's radius has been written and the cached hull point cloud and    *)
(* radius array are as before the call.                                     *)
C17_IsPermutation ==
    /\ Len(call.outputs) = Len(call.mapper.nodes)
    /\ \A i \in 0..(Len(call.mapper.nodes) - 1) :
            \E k \in 1..Len(call.outputs) : call.outputs[k].ix = i

C17_FailsOnBadIndices ==
    pc = "done" =>
        /\ ret.raised <=> ~C17_IsPermutation
        /\ ret.raised => ret.mapper = call.mapper

\* the workers returned the right number of indices with one node twice and
\* one node missing, on a mapper that has cached results, and the call raised
C17_Witness ==
    /\ pc = "done"
    /\ ret.raised
    /\ Len(call.outputs) = 2
    /\ Len(call.mapper.nodes) = 2
    /\ call.outputs[1].ix = call.outputs[2].ix
    /\ call.mapper.hull_coords # <<>>
    /\ ret.mapper.hull_coords = call.mapper.hull_coords

----------------------------------------------------------------------------
(* C18: load_skeleton returns the empty (nodes, diameters, edges) triple,   *)
(* without raising, whenever recompute is requested or no cached skeleton   *)
(* exists, for a non-supervoxel object as for a supervoxel.                 *)
C18_EmptyWithoutRaising ==
    (pc = "done" /\ (call.recompute \/ ~call.so.skeleton_exists)) =>
        ret.raised = "none" /\ ret.value = EmptySkeleton

----------------------------------------------------------------------------
(* C19: majority_processes on a tracing with at least one soma-labelled     *)
(* node runs to completion, and afterwards every node that was              *)
(* soma-labelled is soma-labelled.                                          *)
C19_CompletesAndKeepsSoma ==
    (pc = "done" /\ \E v \in DOMAIN call.pred : call.pred[v] = 2) =>
        /\ ret.raised = "none"
        /\ \A v \in DOMAIN call.pred : call.pred[v] = 2 => ret.pred[v] = 2

----------------------------------------------------------------------------
(* C21: for every label volume, edge mask and odd stencil, the output of    *)
(* process_block_nonzero at (x,y,z) equals the output of process_block at   *)
(* (x,y,z) + stencil//2.                                                    *)
C21_SameKeys ==
    pc = "done" =>
        /\ ~ret.full.raised
        /\ \A p \in DOMAIN ret.nonzero.out :
              ret.nonzero.out[p] = ret.full.out[VAdd(p, StencilOffset(call.stencil))]

----------------------------------------------------------------------------
(* C22: after grow_out_soma on a tree-shaped tracing every node whose       *)
(* along-graph distance from some node soma-labelled at entry is at most    *)
(* max_dist is soma-labelled, whatever happened on other branches and       *)
(* whatever the traversal order.                                            *)
C22_Dist(u, v) ==
    IF u = v THEN 0
    ELSE IF u = call.ctr \/ v = call.ctr THEN Abs(call.coords[u] - call.coords[v])
    ELSE Abs(call.coords[u]) + Abs(call.coords[v])

C22_AllWithinBudgetRelabelled ==
    pc = "done" =>
        \A v \in 1 .. call.n :
            (\E u \in 1 .. call.n : call.pred[u] = 2 /\ C22_Dist(u, v) <= call.max_dist)
                => ret[v] = 2

----------------------------------------------------------------------------
(* C23: for a node's list of distinct candidate indices, node_id2key        *)
(* returns exactly the keys ids[i] of the candidates i with                 *)
(* sizes[i] >= filter_size, as a set, also when a key equals another        *)
(* candidate's index.                                                       *)
C23_ExactlyRetainedKeys ==
    pc = "done" =>
        {ret[1][k] : k \in 1 .. Len(ret[1])} =
            {call.ids[call.node[k]] : k \in {j \in 1 .. Len(call.node) :
                                    call.sizes[call.node[j]] >= call.filter_size}}

\* the key of a retained candidate equals the index of a later candidate of
\* the list, one of the two being dropped in a second case
C23_Witness ==
    /\ pc = "done"
    /\ Len(call.node) = 3
    /\ call.ids[call.node[1]] = call.node[2]
    /\ call.sizes[call.node[1]] >= call.filter_size
    /\ call.sizes[call.node[2]] >= call.filter_size
    /\ call.sizes[call.node[3]] < call.filter_size
    /\ Len(ret[1]) = 2

----------------------------------------------------------------------------
(* C24: load_voxel_list_downsampled_adapt terminates for every object with  *)
(* materialized voxels, an object whose mask has no True voxel included.    *)
C24_Terminates == <>(pc = "done")

----------------------------------------------------------------------------
(* C25: after any sequence of save_voxels calls on an object id,            *)
(* overlapping or repeated blocks included, a successful load_voxels sets   *)
(* the cached voxel count to the number of True voxels of the volume it     *)
(* returns and the bounding box to the tight union of the block extents.    *)
C25_SizeIsTrueCount ==
    (last = "load_voxels" /\ so.ret.sentinel = 0) =>
        /\ so.size = Cardinality(so.ret.true)
        /\ \A k \in 1 .. 3 :
            /\ so.bounding_box[1][k] =
                 SetMin({voxel_dc[so.id][i].offset[k] : i \in 1 .. Len(voxel_dc[so.id])})
            /\ so.bounding_box[2][k] =
                 SetMax({voxel_dc[so.id][i].offset[k] + voxel_dc[so.id][i].shape[k] :
                            i \in 1 .. Len(voxel_dc[so.id])})

----------------------------------------------------------------------------
(* C26: when remap_tracings with an output directory over N >= 2 tracings   *)
(* returns, the output directory holds the remapped result of each of the   *)
(* N tracings.                                                              *)
C26_AllResultsKept ==
    (pc = "done" /\ call.has_output_dir /\ call.n >= 2) =>
        \A f \in 1 .. call.n : ret.dir[f] = "remapped"

----------------------------------------------------------------------------
(* C27: after annotate_objects with any of the methods 'hull',              *)
(* 'supervoxel', 'gt_sampling', 'kd', every object kept in the type's       *)
(* container has a vote-count entry in mapping_info, so write2kzip does not *)
(* fail on it.                                                              *)
C27_VotesForEveryKeptObject ==
    /\ pc = "annotated" =>
          \A key \in ret.object_dict : \E e \in ret.mapping_info : e[1] = key
    /\ pc = "done" => ret.raised = "none"

----------------------------------------------------------------------------
(* C28: every sub-directory the pairwise routine writes into (the           *)
(* per-contact directory, overlap_vx/ and pairwise/) exists, created by     *)
(* detect_synapses, before any pairwise detection is dispatched.            *)
C28_TargetsCreated ==
    pc = "done" => ret.targets \subseteq ret.dirs /\ ret.raised = "none"

----------------------------------------------------------------------------
(* C29: after concurrent extract_pre_cs_thread workers saving into the same *)
(* shard have all finished, every block saved by any worker is present in   *)
(* the shard's voxel index, under every interleaving of their load, modify  *)
(* and save2pkl steps.                                                      *)
C29_NoLostWrite ==
    pc = "done" =>
        \A w \in Workers :
            \E i \in 1 .. Len(voxel_dc[call.work[w].id]) :
                voxel_dc[call.work[w].id][i] = call.work[w].block

----------------------------------------------------------------------------
(* C30: for a comment that contains a myelin<digit> token, the patch of     *)
(* calc_myelinisation changes only the digit that follows 'myelin', to the  *)
(* new flag, and after repeated calls the comment holds exactly one myelin  *)
(* token, whose digit is the flag of the last call.                         *)
C30_HasToken ==
    /\ FindMyelin(call.comment) # -1
    /\ FindMyelin(call.comment) + 6 < Len(call.comment)
    /\ call.comment[FindMyelin(call.comment) + 7] \in {"0", "1"}

C30_TokenCount(comment) ==
    Cardinality({i \in 0 .. Len(comment) - Len(MyelinToken) :
                    \A j \in 1 .. Len(MyelinToken) : comment[i + j] = MyelinToken[j]})

C30_OnlyDigitChanges ==
    (pc = "done" /\ C30_HasToken /\ C30_TokenCount(call.comment) = 1) =>
        /\ Len(ret.once) = Len(call.comment)
        /\ \A i \in 1 .. Len(call.comment) :
              IF i = FindMyelin(call.comment) + 7
              THEN ret.once[i] = call.myelin_b[1]
              ELSE ret.once[i] = call.comment[i]
        /\ C30_TokenCount(ret.twice) = 1
        /\ ret.twice[FindMyelin(ret.twice) + 7] = call.myelin_b[2]

====
